---------------------------- MODULE Spec2Model ----------------------------
(***************************************************************************)
(* Model of the audio transcription core of SmartProposalEngine:          *)
(*   services/transcription_service.py  (AudioProcessor, SpeakerAnalyzer, *)
(*                                       TextOptimizer,                    *)
(*                                       TranscriptionService)             *)
(*   core/model_interface.py            (ModelInterface.generate_content) *)
(*                                                                         *)
(* Times are kept in milliseconds as pydub reports them; the seconds       *)
(* stored in a segment tuple are built by ToSeconds.                       *)
(***************************************************************************)
EXTENDS Integers, Sequences, FiniteSets, TLC

(***************************************************************************)
(* Bounds of the model                                                     *)
(***************************************************************************)
\* longest list of silence intervals detect_silence may return
MaxSilences == 2
\* the cutting loop is followed for at most this many exported segments
MaxSegments == 4
\* backend calls of one run that may fail apart from the outage
MaxFaults == 1
\* longest outage that ends by itself, in calls
MaxBurst == 2
\* most calls of an operation that are answered before its outage begins
MaxCallsBefore == 2
\* most get_file calls an uploaded file needs to become ACTIVE
MaxPolls == 1
MaxRuns == 2
MaxLines == 2
MaxRetries == 3

(***************************************************************************)
(* Program constants                                                       *)
(***************************************************************************)
\* transcription_service.py:187   search_window = 30000
search_window == 30000
\* transcription_service.py:194   total_duration - 5000
tail_threshold == 5000
\* transcription_service.py:166   max_duration_minutes * 60 * 1000
ms_per_minute == 60000
\* transcription_service.py:114   self.min_silence_length = 800
min_silence_length == 800
\* transcription_service.py:169   total_duration / 1000
ms_per_second == 1000
\* transcription_service.py:341   self.max_retries = 3
max_retries == 3
\* model_interface.py:247         max_retries: int = 3
gc_max_retries == 3
\* transcription_service.py:608   time.sleep(10)
poll_interval == 10
\* transcription_service.py:526   time.sleep(3)
segment_pause == 3
\* transcription_service.py:342   self.delete_uploaded_files = True
delete_uploaded_files == TRUE

VARIABLES
    \* ---- AudioProcessor / split_audio ----
    pydub_available,      \* AudioProcessor.pydub_available
    total_duration,       \* len(audio), milliseconds
    max_duration_minutes, \* argument of split_audio
    silence_chunks,       \* result of detect_silence: sequence of <<start, end>>
    split_pc,             \* position inside split_audio
    segments,             \* local list `segments` of split_audio
    current_start,        \* local `current_start`
    segment_index,        \* local `segment_index`
    segments_info,        \* value returned by split_audio
    returned_at,          \* source line of the return statement taken (0: none)
    temp_folder_exists,   \* os.path.exists(self.temp_folder)
    temp_folder,          \* segment files present in self.temp_folder
    \* ---- the generative-language backend and the clock ----
    is_initialized,       \* ModelInterface.is_initialized
    outage,               \* the calls of one operation that fail in a row
    processing_polls,     \* get_file calls after which an uploaded file is ACTIVE
    silent_segments,      \* paths n whose audio has no speech
    script,               \* the labelled utterances heard in the audio of path n
    faults_left,          \* further backend calls that may still fail
    next_handle,          \* name the next uploaded file gets
    remote_files,         \* uploaded files the backend still stores
    log,                  \* backend calls and sleeps of the running segment call
    usage,                \* token counts of the generate calls that succeeded
    \* ---- TranscriptionService._transcribe_single_segment ----
    stack,                \* activation records of the recursive calls
    seg_out,              \* what the outermost call handed to its caller
    \* ---- TranscriptionService.process / _transcribe_audio ----
    pc,                   \* position inside process
    options,              \* the options dict of process
    audio_processor,      \* self.audio_processor is set
    mode,                 \* branch of _transcribe_audio: "short", "single", "multi"
    seg_i,                \* loop index i of lines 500-526
    transcription_segments, \* list of TranscriptionSegment
    total_input_tokens,
    total_output_tokens,
    transcribed_text,     \* local of _transcribe_audio
    opt_retry_count,      \* retry_count of the optimizer's generate_content call
    opt_stats,            \* local opt_stats of _transcribe_audio (line 547)
    run,                  \* number of this process call on the service instance
    speaker_analyzer,     \* self.speaker_analyzer
    speaker_mapping,      \* local speaker_mapping of _transcribe_audio
    result,               \* the ProcessingResult process returns
    rmtree_calls,         \* shutil.rmtree attempts of cleanup_temp_files
    provider,             \* the object whose generate loop is called on its own
    provider_call,        \* retry_count and outcome of that call
    \* ---- two service instances in one working directory ----
    temp_segments,        \* the directory "temp_segments" of the working directory
    services              \* the process call of each of the two instances

split_vars == <<pydub_available, total_duration, max_duration_minutes,
                silence_chunks, split_pc, segments, current_start,
                segment_index, segments_info, returned_at,
                temp_folder_exists, temp_folder>>

backend_config == <<is_initialized, processing_polls, silent_segments, script>>

provider_vars == <<provider, provider_call>>

backend_vars == <<backend_config, provider_vars, outage, faults_left,
                  next_handle, remote_files, log, usage>>

segment_vars == <<stack, seg_out>>

process_vars == <<pc, options, audio_processor, mode, seg_i,
                  transcription_segments, total_input_tokens,
                  total_output_tokens, transcribed_text, opt_retry_count,
                  opt_stats, run, speaker_analyzer, speaker_mapping, result,
                  rmtree_calls>>

concurrent_vars == <<temp_segments, services>>

vars == <<split_vars, backend_vars, segment_vars, process_vars,
          concurrent_vars>>

(***************************************************************************)
(* Helpers                                                                 *)
(***************************************************************************)
Min(a, b) == IF a <= b THEN a ELSE b

\* the directory temp_segments does not exist; no second instance is running
SegmentNames == 0..(MaxSegments - 1)
NoFolder == [exists |-> FALSE, files |-> [n \in SegmentNames |-> 0]]
NoServices == << >>

\* the division of get_audio_duration (line 134) used for seconds
ToSeconds_minutes(x) == [s |-> x \div 60000, frac |-> 0]

\* x / 1000 of Python, for a non-negative integer x: the exact quotient,
\* kept as whole seconds and the remaining thousandths.
ToSeconds(x) == [s |-> x \div ms_per_second, frac |-> x % ms_per_second]

\* a <= b on values built by ToSeconds
SecondsLeq(a, b) == a.s < b.s \/ (a.s = b.s /\ a.frac <= b.frac)

\* file_path of the caller, and os.path.join(temp_folder, "segment_NNN.m4a")
InputPath == [temp |-> FALSE, n |-> 0]
SegmentPath(i) == [temp |-> TRUE, n |-> i]

\* one element of the list split_audio returns: (path, start, end)
SegmentTuple(p, a, b) == [path |-> p, start |-> a, end |-> b]

\* the value of both fallbacks of split_audio: [(file_path, 0, 0)]
FallbackResult == << SegmentTuple(InputPath, ToSeconds(0), ToSeconds(0)) >>

(***************************************************************************)
(* AudioProcessor.split_audio                                              *)
(***************************************************************************)
max_duration_ms == max_duration_minutes * ms_per_minute

\* line 185
ideal_end(cur) == Min(cur + max_duration_ms, total_duration)

\* lines 189-192: the first chunk of the list whose start lies in the window
InWindow(cur, i) ==
    /\ ideal_end(cur) - search_window <= silence_chunks[i][1]
    /\ silence_chunks[i][1] <= ideal_end(cur) + search_window

FirstInWindow(cur) ==
    LET hits == {i \in 1..Len(silence_chunks) : InWindow(cur, i)}
    IN  IF hits = {} THEN 0
        ELSE CHOOSE i \in hits : \A j \in hits : i <= j

\* the cut of a loop without the break of line 192: the last chunk in the
\* window wins
best_split_point_last(cur) ==
    LET hits == {i \in 1..Len(silence_chunks) : InWindow(cur, i)}
        best == IF hits = {} THEN ideal_end(cur)
                ELSE silence_chunks[CHOOSE i \in hits : \A j \in hits : j <= i][1]
    IN  IF best >= total_duration - tail_threshold THEN total_duration
        ELSE best

\* the cut of a loop whose tail rule absorbs a whole minute instead of 5 s
best_split_point_tail60(cur) ==
    LET k == FirstInWindow(cur)
        best == IF k = 0 THEN ideal_end(cur) ELSE silence_chunks[k][1]
    IN  IF best >= total_duration - 12 * tail_threshold THEN total_duration
        ELSE best

\* lines 186-195: the cut chosen for the segment that starts at cur
best_split_point(cur) ==
    LET k == FirstInWindow(cur)
        best == IF k = 0 THEN ideal_end(cur) ELSE silence_chunks[k][1]
    IN  IF best >= total_duration - tail_threshold THEN total_duration
        ELSE best

\* a cut that ignores the chosen split point and advances to the ideal end
next_start_ideal(cur) == ideal_end(cur)

\* line 210: current_start = best_split_point
next_start(cur) == best_split_point(cur)

\* lines 156-182.  AudioSegment.from_file, os.makedirs and detect_silence
\* may raise; the except of lines 216-218 turns that into the fallback.
split_audio_begin ==
    /\ split_pc = "begin"
    /\ IF ~pydub_available
       THEN /\ segments_info' = FallbackResult
            /\ returned_at' = 157
            /\ split_pc' = "returned"
            /\ UNCHANGED temp_folder_exists
       ELSE \E raised \in {"from_file", "detect_silence", "none"} :
            IF raised = "from_file"
            THEN /\ segments_info' = FallbackResult
                 /\ returned_at' = 218
                 /\ split_pc' = "returned"
                 /\ UNCHANGED temp_folder_exists
            ELSE IF total_duration <= max_duration_ms
            THEN /\ segments_info' =
                       << SegmentTuple(InputPath, ToSeconds(0),
                                       ToSeconds(total_duration)) >>
                 /\ returned_at' = 169
                 /\ split_pc' = "returned"
                 /\ UNCHANGED temp_folder_exists
            ELSE /\ temp_folder_exists' = TRUE
                 /\ IF raised = "detect_silence"
                    THEN /\ segments_info' = FallbackResult
                         /\ returned_at' = 218
                         /\ split_pc' = "returned"
                    ELSE /\ split_pc' = "loop"
                         /\ UNCHANGED <<segments_info, returned_at>>
    /\ UNCHANGED <<pydub_available, total_duration, max_duration_minutes,
                   silence_chunks, segments, current_start, segment_index,
                   temp_folder>>

\* lines 184-211: one iteration of the while loop; export may raise, which
\* the except of lines 216-218 turns into the fallback result
split_audio_iterate ==
    /\ split_pc = "loop"
    /\ current_start < total_duration
    /\ Len(segments) < MaxSegments
    /\ \E exported \in BOOLEAN :
         IF exported
         THEN /\ temp_folder' = temp_folder \cup {segment_index}
              /\ segments' = Append(segments,
                                SegmentTuple(SegmentPath(segment_index),
                                             ToSeconds(current_start),
                                             ToSeconds(best_split_point(current_start))))
              /\ current_start' = next_start(current_start)
              /\ segment_index' = segment_index + 1
              /\ UNCHANGED <<split_pc, segments_info, returned_at>>
         ELSE /\ segments_info' = FallbackResult
              /\ returned_at' = 218
              /\ split_pc' = "returned"
              /\ UNCHANGED <<temp_folder, segments, current_start, segment_index>>
    /\ UNCHANGED <<pydub_available, total_duration, max_duration_minutes,
                   silence_chunks, temp_folder_exists>>

\* lines 213-214
split_audio_return ==
    /\ split_pc = "loop"
    /\ ~(current_start < total_duration)
    /\ segments_info' = segments
    /\ returned_at' = 214
    /\ split_pc' = "returned"
    /\ UNCHANGED <<pydub_available, total_duration, max_duration_minutes,
                   silence_chunks, segments, current_start, segment_index,
                   temp_folder, temp_folder_exists>>

(***************************************************************************)
(* Inputs of split_audio                                                   *)
(***************************************************************************)
\* durations of the source file (ms): 5 min, 10 min, 10 min 40 s,
\* 20 min 15 s, 45 min
Durations == {300000, 600000, 605000, 640000, 1215000, 2700000}

\* the slider of pages/1_Input_Processing.py offers 10..30 minutes
MaxMinutes == {10, 20}

\* starts (ms) at which detect_silence may report a silence
SilenceStarts == {570000, 598000, 625000, 1190000, 1195000, 1211000,
                  2380000, 2675000, 2697000}

RECURSIVE IncreasingSeqs(_, _)
\* strictly increasing sequences of at most n elements of S
IncreasingSeqs(S, n) ==
    IF n = 0 THEN { <<>> }
    ELSE LET shorter == IncreasingSeqs(S, n - 1)
         IN  shorter \cup
             { Append(q, x) : q \in {r \in shorter : Len(r) = n - 1}, x \in S }

IsIncreasing(q) == \A i \in 1..(Len(q) - 1) : q[i] < q[i + 1]

\* detect_silence returns [start, end] pairs in time order, each at least
\* min_silence_len long and inside the audio
SilenceLists(total) ==
    { [i \in 1..Len(q) |-> << q[i], q[i] + min_silence_length >>] :
        q \in { r \in IncreasingSeqs(SilenceStarts, MaxSilences) :
                  /\ IsIncreasing(r)
                  /\ \A i \in 1..Len(r) : r[i] + min_silence_length <= total } }

SplitInit ==
    /\ pydub_available \in BOOLEAN
    /\ total_duration \in Durations
    /\ max_duration_minutes \in MaxMinutes
    /\ silence_chunks \in SilenceLists(total_duration)
    /\ split_pc = "begin"
    /\ segments = <<>>
    /\ current_start = 0
    /\ segment_index = 0
    /\ segments_info = <<>>
    /\ returned_at = 0
    /\ temp_folder_exists = FALSE
    /\ temp_folder = {}

(***************************************************************************)
(* Texts, token estimates, errors                                          *)
(***************************************************************************)
\* a text is known by its name, by how many CJK and other characters it
\* has, and by its labelled utterances: the places where a speaker label is
\* followed by a colon, in order
EmptyText == [id |-> <<>>, cjk |-> 0, other |-> 0, lines |-> <<>>]
SpokenText(n) == [id |-> <<"transcript", n>>, cjk |-> 4 + n, other |-> 7,
                  lines |-> <<>>]
OptimizedText == [id |-> <<"optimized">>, cjk |-> 5, other |-> 4,
                  lines |-> <<>>]

\* a speaker label: 说话人, 发言人 or Speaker followed by a letter or a number
Label(family, tag) == [family |-> family, tag |-> tag]

\* label, then ':' (ascii) or '：' (wide), then words that show these traits
Utterance(label, colon, traits) ==
    [speaker |-> label, colon |-> colon, traits |-> traits]

\* response.text of a successful generate call for the audio of a path
ResponseText(path) ==
    IF path.n \in silent_segments THEN EmptyText
    ELSE [SpokenText(path.n) EXCEPT !.lines = script[path.n]]

\* str([prompt, audio_file]) for the two transcription templates
PromptText(diarization) ==
    IF diarization THEN [id |-> <<"multi_speaker">>, cjk |-> 9, other |-> 5,
                         lines |-> <<>>]
    ELSE [id |-> <<"single_speaker">>, cjk |-> 6, other |-> 3, lines |-> <<>>]

\* model_interface.py 364-379: int(chinese_chars + other_chars * 0.5)
estimate_tokens(text) == text.cjk + (text.other \div 2)

\* what the backend's exceptions say
Errors == {"503", "400"}

\* model_interface.py 350-359
retry_keywords == {"rate limit", "quota exceeded", "timeout", "temporary",
                   "unavailable", "429", "503", "504"}

\* model_interface.py 348-362; a message is the sequence of its parts
should_retry(error_msg) ==
    \E i \in 1..Len(error_msg) : error_msg[i] \in retry_keywords

NoError == <<>>
NoTokens == [input |-> 0, output |-> 0]

\* what a call of _transcribe_single_segment hands to its caller
NoOut == [kind |-> "none", text |-> EmptyText, tokens |-> NoTokens,
          error |-> NoError]
Return(t, tok) == [kind |-> "return", text |-> t, tokens |-> tok,
                   error |-> NoError]
Raise(e) == [kind |-> "raise", text |-> EmptyText, tokens |-> NoTokens,
             error |-> e]

\* entries of the log
Call(op, res, h, t) == [op |-> op, res |-> res, n |-> h, text |-> t]
Sleep(who, secs) == [op |-> "sleep", res |-> who, n |-> secs, text |-> EmptyText]

(***************************************************************************)
(* The backend: which answers a call can get                               *)
(***************************************************************************)
NoOutage == [op |-> "none", error |-> "", from |-> 0, calls |-> 0,
             standing |-> FALSE, delete_down |-> FALSE]

\* op fails with error from its call number `from` on (counted from 0), for
\* `calls` calls or, if standing, for good; delete_file may be down as well
Outages ==
    {NoOutage}
    \cup { [op |-> "upload", error |-> "503", from |-> f, calls |-> 0,
            standing |-> TRUE, delete_down |-> d] :
              f \in 0..MaxCallsBefore, d \in BOOLEAN }
    \cup { [op |-> "generate", error |-> e, from |-> f, calls |-> 0,
            standing |-> TRUE, delete_down |-> d] :
              e \in Errors, f \in 0..MaxCallsBefore, d \in BOOLEAN }
    \cup { [op |-> "generate", error |-> "503", from |-> 0, calls |-> n,
            standing |-> FALSE, delete_down |-> FALSE] : n \in 1..MaxBurst }

\* the next call of op falls into the outage
Down(op) ==
    IF op = "delete" THEN outage.delete_down
    ELSE /\ outage.op = op
         /\ outage.from = 0
         /\ outage.standing \/ outage.calls > 0

\* the outage once op has been called again
AfterCall(op) ==
    IF outage.op # op THEN outage
    ELSE IF outage.from > 0 THEN [outage EXCEPT !.from = @ - 1]
    ELSE IF outage.calls > 0 THEN [outage EXCEPT !.calls = @ - 1]
    ELSE outage

\* what a call may raise apart from the outage
Faults(op) ==
    IF faults_left = 0 THEN {}
    ELSE IF op = "generate" THEN Errors
    ELSE {"503"}

\* genai.upload_file, model.generate_content, genai.delete_file
Results(op) == IF Down(op) THEN {outage.error} ELSE {"ok"} \cup Faults(op)

\* state of a file that upload_file has just returned
UploadState == IF processing_polls = 0 THEN "ACTIVE" ELSE "PROCESSING"

\* genai.get_file for a file polled `polls` times before
PollResults(polls) ==
    {IF polls + 1 >= processing_polls THEN "ACTIVE" ELSE "PROCESSING"}
    \cup (IF faults_left > 0 THEN {"FAILED", "503"} ELSE {})

Spend(op, r) ==
    /\ outage' = AfterCall(op)
    /\ faults_left' = IF ~Down(op) /\ r \notin {"ok", "ACTIVE", "PROCESSING"}
                      THEN faults_left - 1 ELSE faults_left

(***************************************************************************)
(* TranscriptionService._transcribe_single_segment                         *)
(***************************************************************************)
\* a fresh activation: line 587, audio_file = None
Frame(path, retry_count) ==
    [path |-> path, retry_count |-> retry_count, audio_file |-> 0,
     state |-> "", polls |-> 0, gc_retry_count |-> 0, pc |-> "upload",
     out |-> NoOut]

Top == stack[Len(stack)]
SetTop(stk, f) == [stk EXCEPT ![Len(stk)] = f]

\* the handler of lines 634-642 in the activation on top of stk, which caught e
OuterExcept(stk, e, lg) ==
    LET f == stk[Len(stk)]
    IN  IF f.retry_count < max_retries
        THEN /\ stack' = Append(SetTop(stk, [f EXCEPT !.pc = "outer_retry"]),
                                Frame(f.path, f.retry_count + 1))
             /\ log' = Append(lg, Sleep("segment_retry", 2 ^ f.retry_count))
        ELSE /\ stack' = SetTop(stk, [f EXCEPT !.pc = "finally",
                                !.out = Raise(<<"transcription failed">> \o e)])
             /\ log' = lg

\* the handler of lines 596-604, which caught e
UploadExcept(e, lg) ==
    IF Top.retry_count < max_retries
    THEN /\ stack' = Append(SetTop(stack, [Top EXCEPT !.pc = "inner_retry"]),
                            Frame(Top.path, Top.retry_count + 1))
         /\ log' = Append(lg, Sleep("upload_retry", 2 ^ Top.retry_count))
    ELSE OuterExcept(stack, <<"upload failed">> \o e, lg)

\* lines 594-604
ss_upload ==
    /\ stack # <<>>
    /\ Top.pc = "upload"
    /\ \E r \in Results("upload") :
         LET called == Append(log, Call("upload", r,
                                 IF r = "ok" THEN next_handle ELSE 0, EmptyText))
         IN  /\ Spend("upload", r)
             /\ IF r = "ok"
                THEN /\ stack' = SetTop(stack, [Top EXCEPT !.audio_file = next_handle,
                                             !.state = UploadState, !.pc = "poll"])
                     /\ next_handle' = next_handle + 1
                     /\ remote_files' = remote_files \cup {next_handle}
                     /\ log' = called
                ELSE /\ UploadExcept(<<r>>, called)
                     /\ UNCHANGED <<next_handle, remote_files>>
    /\ UNCHANGED <<split_vars, process_vars, seg_out, backend_config, concurrent_vars, provider_vars, usage>>

\* lines 607-609: one turn of the polling loop
ss_wait ==
    /\ stack # <<>>
    /\ Top.pc = "poll"
    /\ Top.state = "PROCESSING"
    /\ \E r \in PollResults(Top.polls) :
         LET called == Append(Append(log, Sleep("poll", poll_interval)),
                              Call("get_file", r, Top.audio_file, EmptyText))
         IN  /\ Spend("get_file", r)
             /\ IF r \in Errors
                THEN OuterExcept(stack, <<r>>, called)
                ELSE /\ stack' = SetTop(stack, [Top EXCEPT !.state = r,
                                             !.polls = Top.polls + 1])
                     /\ log' = called
    /\ UNCHANGED <<split_vars, process_vars, seg_out, backend_config, concurrent_vars, provider_vars,
                   next_handle, remote_files, usage>>

\* a check after the loop that lets every state through
ss_check_state_lenient ==
    /\ stack # <<>>
    /\ Top.pc = "poll"
    /\ Top.state # "PROCESSING"
    /\ stack' = SetTop(stack, [Top EXCEPT !.pc = "generate",
                                          !.gc_retry_count = 0])
    /\ log' = log
    /\ UNCHANGED <<split_vars, process_vars, seg_out, backend_config, concurrent_vars, provider_vars, outage,
                   faults_left, next_handle, remote_files, usage>>

\* lines 611-621: the state check after the loop and the prompt
ss_check_state ==
    /\ stack # <<>>
    /\ Top.pc = "poll"
    /\ Top.state # "PROCESSING"
    /\ IF Top.state = "FAILED"
       THEN OuterExcept(stack, <<"file processing failed", "FAILED">>, log)
       ELSE /\ stack' = SetTop(stack, [Top EXCEPT !.pc = "generate",
                                    !.gc_retry_count = 0])
            /\ log' = log
    /\ UNCHANGED <<split_vars, process_vars, seg_out, backend_config, concurrent_vars, provider_vars, outage,
                   faults_left, next_handle, remote_files, usage>>

\* token counts that also bill the attempts that failed before
statistics_cumulative(prompt, response_text, retry_count) ==
    [input |-> estimate_tokens(prompt) * (retry_count + 1),
     output |-> estimate_tokens(response_text) * (retry_count + 1)]

\* model_interface.py 309-325 and transcription_service.py 629-632: the
\* token counts of a call that succeeded at retry_count
statistics(prompt, response_text, retry_count) ==
    [input |-> estimate_tokens(prompt), output |-> estimate_tokens(response_text)]

\* model_interface.py 240-346 as called at lines 624-627: one activation of
\* generate_content
gc_attempt ==
    /\ stack # <<>>
    /\ Top.pc = "generate"
    /\ IF ~is_initialized
       THEN /\ OuterExcept(stack, <<"ModelInterface not initialized">>, log)
            /\ UNCHANGED <<faults_left, outage, usage>>
       ELSE \E r \in Results("generate") :
            LET t == ResponseText(Top.path)
                called == Append(log, Call("generate", r, Top.audio_file,
                                           IF r = "ok" THEN t ELSE EmptyText))
                stats == statistics(PromptText(options.enable_speaker_diarization),
                                    t, Top.gc_retry_count)
            IN  /\ Spend("generate", r)
                /\ usage' = IF r = "ok" THEN Append(usage, stats) ELSE usage
                /\ IF r = "ok"
                   THEN /\ stack' = SetTop(stack, [Top EXCEPT !.pc = "finally",
                              !.out = Return(t, stats)])
                        /\ log' = called
                   ELSE IF Top.gc_retry_count < gc_max_retries /\ should_retry(<<r>>)
                   THEN /\ stack' = SetTop(stack, [Top EXCEPT
                              !.gc_retry_count = Top.gc_retry_count + 1])
                        /\ log' = Append(called,
                              Sleep("generate_retry", 2 ^ Top.gc_retry_count))
                   ELSE OuterExcept(stack, <<"model call failed", r>>, called)
    /\ UNCHANGED <<split_vars, process_vars, seg_out, backend_config, concurrent_vars, provider_vars,
                   next_handle, remote_files>>

\* a cleanup that releases the handle only when the activation returns a text
ss_finally_on_return ==
    /\ stack # <<>>
    /\ Top.pc = "finally"
    /\ IF Top.audio_file # 0 /\ delete_uploaded_files /\ Top.out.kind = "return"
       THEN \E r \in Results("delete") :
              /\ Spend("delete", r)
              /\ log' = Append(log, Call("delete", r, Top.audio_file, EmptyText))
              /\ remote_files' = IF r = "ok" THEN remote_files \ {Top.audio_file}
                                 ELSE remote_files
       ELSE UNCHANGED <<faults_left, outage, log, remote_files>>
    /\ stack' = SetTop(stack, [Top EXCEPT !.pc = "exit"])
    /\ UNCHANGED <<split_vars, process_vars, seg_out, backend_config, concurrent_vars, provider_vars,
                   next_handle, usage>>

\* lines 644-650
ss_finally ==
    /\ stack # <<>>
    /\ Top.pc = "finally"
    /\ IF Top.audio_file # 0 /\ delete_uploaded_files
       THEN \E r \in Results("delete") :
              /\ Spend("delete", r)
              /\ log' = Append(log, Call("delete", r, Top.audio_file, EmptyText))
              /\ remote_files' = IF r = "ok" THEN remote_files \ {Top.audio_file}
                                 ELSE remote_files
       ELSE UNCHANGED <<faults_left, outage, log, remote_files>>
    /\ stack' = SetTop(stack, [Top EXCEPT !.pc = "exit"])
    /\ UNCHANGED <<split_vars, process_vars, seg_out, backend_config, concurrent_vars, provider_vars,
                   next_handle, usage>>

\* the activation ends: its value or exception reaches the place of the call
\* (line 599 inside the handler of 596, line 637 inside the handler of 634,
\* or the caller in _transcribe_audio)
ss_exit ==
    /\ stack # <<>>
    /\ Top.pc = "exit"
    /\ LET rest == SubSeq(stack, 1, Len(stack) - 1)
       IN  IF rest = <<>>
           THEN /\ stack' = <<>>
                /\ seg_out' = Top.out
                /\ log' = log
           ELSE LET caller == rest[Len(rest)]
                IN  /\ seg_out' = seg_out
                    /\ IF Top.out.kind = "raise" /\ caller.pc = "inner_retry"
                       THEN OuterExcept(rest, Top.out.error, log)
                       ELSE /\ stack' = SetTop(rest, [caller EXCEPT
                                  !.pc = "finally", !.out = Top.out])
                            /\ log' = log
    /\ UNCHANGED <<split_vars, process_vars, backend_config, concurrent_vars, provider_vars, outage,
                   faults_left, next_handle, remote_files, usage>>

segment_step ==
    \/ ss_upload
    \/ ss_wait
    \/ ss_check_state
    \/ gc_attempt
    \/ ss_finally
    \/ ss_exit

(***************************************************************************)
(* The generate loops of GeminiProvider, QwenProvider and ModelInterface,  *)
(* each called on its own                                                  *)
(***************************************************************************)
\* what the backends' exceptions say in these calls
ProviderErrors == {"503", "429", "500", "400", "throttling"}

\* gemini_provider.py 278-282
gemini_retry_keywords ==
    {"rate limit", "quota exceeded", "timeout", "temporary", "unavailable",
     "503 service unavailable", "resource has been exhausted",
     "429", "500", "503", "504"}

\* qwen_provider.py 221-225
qwen_retry_keywords ==
    {"throttling", "qps rate-limit", "service is unavailable", "timeout",
     "serviceunavailable", "systemerror", "internalservererror", "503", "504"}

\* the _should_retry of each object
provider_should_retry(name, error_msg) ==
    IF name = "model_interface" THEN should_retry(error_msg)
    ELSE \E i \in 1..Len(error_msg) :
           error_msg[i] \in (IF name = "gemini" THEN gemini_retry_keywords
                             ELSE qwen_retry_keywords)

NoProvider == [name |-> "none", max_retries |-> 0]
NoCall == [retry_count |-> 0, pc |-> "idle", error |-> NoError]

\* a wait of one second before every re-attempt
wait_time_constant(retry_count) == 1

\* wait_time = 2 ** retry_count
wait_time(retry_count) == 2 ^ retry_count

\* one activation of the loop of the object called name: the try with the
\* backend call, and the except with the sleep before the recursive call
provider_attempt(name) ==
    /\ provider.name = name
    /\ provider_call.pc = "try"
    /\ \E r \in {"ok"} \cup ProviderErrors :
         LET called == Append(log, Call("generate", r, 0, EmptyText))
         IN  IF r = "ok"
             THEN /\ provider_call' = [provider_call EXCEPT !.pc = "returned"]
                  /\ log' = called
             ELSE IF provider_call.retry_count < provider.max_retries
                     /\ provider_should_retry(name, <<r>>)
             THEN /\ provider_call' =
                        [provider_call EXCEPT !.retry_count = @ + 1]
                  /\ log' = Append(called,
                               Sleep(name, wait_time(provider_call.retry_count)))
             ELSE /\ provider_call' =
                        [provider_call EXCEPT
                           !.pc = "raised",
                           !.error = <<"model call failed", r>>]
                  /\ log' = called
    /\ UNCHANGED <<split_vars, process_vars, segment_vars, backend_config, concurrent_vars,
                   provider, outage, faults_left, next_handle, remote_files,
                   usage>>

\* gemini_provider.py 88-154
gemini_generate_with_retry == provider_attempt("gemini")

\* qwen_provider.py 88-121
qwen_generate_with_retry == provider_attempt("qwen")

\* model_interface.py 269-346
generate_content == provider_attempt("model_interface")

(***************************************************************************)
(* SpeakerAnalyzer                                                         *)
(***************************************************************************)
\* a dict with no entry; a dict is a function from its keys
NoMapping == <<>>

\* an instance whose first global speaker would be number 2
NewAnalyzer_from2(owner) ==
    [owner |-> owner, global_speaker_map |-> NoMapping,
     speaker_characteristics |-> <<>>, next_global_speaker_id |-> 2]

\* lines 233-236: a new instance; owner is the process call that made it
NewAnalyzer(owner) ==
    [owner |-> owner, global_speaker_map |-> NoMapping,
     speaker_characteristics |-> <<>>, next_global_speaker_id |-> 1]

\* self.speaker_analyzer = None (line 342)
NoAnalyzer == [NewAnalyzer(0) EXCEPT !.next_global_speaker_id = 0]

\* lines 238-242: the labels that a colon follows, as a set
extract_speakers(text) == {text.lines[k].speaker : k \in DOMAIN text.lines}

\* list(set(...)) of line 241 gives the labels in an order of its own
Orders(S) ==
    {order \in [1..Cardinality(S) -> S] :
        \A a, b \in 1..Cardinality(S) : order[a] = order[b] => a = b}

\* what the words that follow a label in a text show (lines 264-271)
TraitsShown(text, speaker) ==
    UNION {text.lines[k].traits :
             k \in {n \in DOMAIN text.lines : text.lines[n].speaker = speaker}}

\* an extraction that returns what the words of the speaker show
extract_speaker_characteristics_shown(text, speaker) ==
    [raised |-> FALSE, characteristics |-> TraitsShown(text, speaker)]

\* lines 244-273: findall with two groups gives tuples, so ' '.join(matches)
\* raises TypeError whenever the label followed by a colon is in the text
extract_speaker_characteristics(text, speaker) ==
    IF speaker \in extract_speakers(text)
    THEN [raised |-> TRUE, characteristics |-> {}]
    ELSE [raised |-> FALSE, characteristics |-> {}]

RECURSIVE best_match(_, _, _, _)
\* lines 283-290: the first profile with the highest score above 0, from
\* profile k on in insertion order; match 0 is None
best_match(profiles, characteristics, k, best) ==
    IF k > Len(profiles) THEN best
    ELSE LET score == Cardinality(characteristics \cap profiles[k].characteristics)
         IN  best_match(profiles, characteristics, k + 1,
                        IF score > best.score
                        THEN [score |-> score, match |-> k] ELSE best)

\* f"说话人{self.next_global_speaker_id}"
GlobalSpeaker(id) == Label("shuohuaren", ToString(id))

\* lines 281-300 for one speaker of one segment
resolve_speaker(analyzer, segment, speaker) ==
    LET found == extract_speaker_characteristics(segment.text, speaker)
        profiles == analyzer.speaker_characteristics
        best == best_match(profiles, found.characteristics, 1,
                           [score |-> 0, match |-> 0])
        key == <<segment.segment_index, speaker>>
    IN  IF found.raised THEN [raised |-> TRUE, analyzer |-> analyzer]
        ELSE IF best.score >= 2
        THEN [raised |-> FALSE,
              analyzer |->
                [analyzer EXCEPT
                   !.global_speaker_map =
                       (key :> profiles[best.match].speaker) @@ @,
                   !.speaker_characteristics[best.match].characteristics =
                       @ \cup found.characteristics]]
        ELSE [raised |-> FALSE,
              analyzer |->
                [analyzer EXCEPT
                   !.global_speaker_map =
                       (key :> GlobalSpeaker(analyzer.next_global_speaker_id)) @@ @,
                   !.next_global_speaker_id = @ + 1,
                   !.speaker_characteristics =
                       Append(@, [speaker |-> GlobalSpeaker(analyzer.next_global_speaker_id),
                                  characteristics |-> found.characteristics])]]

RECURSIVE map_speakers_from(_, _, _, _)
\* lines 279-300 from speaker j of segment i on
map_speakers_from(analyzer, segs, i, j) ==
    IF i > Len(segs) THEN [raised |-> FALSE, analyzer |-> analyzer]
    ELSE IF j > Len(segs[i].speakers)
    THEN map_speakers_from(analyzer, segs, i + 1, 1)
    ELSE LET step == resolve_speaker(analyzer, segs[i], segs[i].speakers[j])
         IN  IF step.raised THEN step
             ELSE map_speakers_from(step.analyzer, segs, i, j + 1)

\* lines 275-302: the instance after the call, and whether the call raised;
\* it returns the instance's own global_speaker_map
map_speakers_across_segments(analyzer, segs) ==
    map_speakers_from(analyzer, segs, 1, 1)

\* the two replace calls of lines 312-313 for one speaker
replace_label(lines, speaker, global_speaker) ==
    [k \in DOMAIN lines |->
        IF lines[k].speaker = speaker
        THEN [lines[k] EXCEPT !.speaker = global_speaker] ELSE lines[k]]

RECURSIVE apply_from(_, _, _, _)
\* lines 308-313 from speaker j of segment.speakers on
apply_from(lines, segment, mapping, j) ==
    IF j > Len(segment.speakers) THEN lines
    ELSE LET key == <<segment.segment_index, segment.speakers[j]>>
         IN  apply_from(IF key \in DOMAIN mapping
                        THEN replace_label(lines, segment.speakers[j], mapping[key])
                        ELSE lines,
                        segment, mapping, j + 1)

\* lines 304-315
apply_speaker_mapping(segment, mapping) ==
    [segment.text EXCEPT !.lines = apply_from(@, segment, mapping, 1)]

(***************************************************************************)
(* TranscriptionService._merge_segments, TextOptimizer, results            *)
(***************************************************************************)
\* utils/format_utils.py 25-61: int(seconds) shown as hours, minutes, seconds
format_duration(seconds) ==
    [h |-> seconds.s \div 3600, m |-> (seconds.s % 3600) \div 60,
     s |-> seconds.s % 60]

\* lines 514-522
TranscriptionSegment(i, start_time, end_time, text, speakers) ==
    [segment_index |-> i, start_time |-> start_time, end_time |-> end_time,
     text |-> text, speakers |-> speakers]

\* a transcript is the sequence of the parts that "\n".join puts together
TextPart(text) == [kind |-> "text", text |-> text,
                   from |-> format_duration(ToSeconds(0)),
                   to |-> format_duration(ToSeconds(0)), speakers |-> {}]
MarkerPart(seg) == [kind |-> "marker", text |-> EmptyText,
                    from |-> format_duration(seg.start_time),
                    to |-> format_duration(seg.end_time), speakers |-> {}]

\* lines 664-670: the summary header names the duration of the file and the
\* global speakers of the mapping
SummaryPart(mapping) ==
    [kind |-> "summary", text |-> EmptyText,
     from |-> format_duration(ToSeconds(total_duration)),
     to |-> format_duration(ToSeconds(total_duration)),
     speakers |-> {mapping[key] : key \in DOMAIN mapping}]

\* what a local string variable holds: "" is the empty sequence of parts
AsTranscript(text) == IF text = EmptyText THEN <<>> ELSE << TextPart(text) >>

RECURSIVE merge_parts(_, _, _)
\* lines 673-683 from segment k on
merge_parts(segs, mapping, k) ==
    IF k > Len(segs) THEN <<>>
    ELSE << MarkerPart(segs[k]),
            TextPart(IF mapping # NoMapping /\ speaker_analyzer # NoAnalyzer
                     THEN apply_speaker_mapping(segs[k], mapping)
                     ELSE segs[k].text) >>
         \o merge_parts(segs, mapping, k + 1)

\* the same segments in the opposite order
merge_segments_reversed(segs, mapping) ==
    IF segs = <<>> THEN <<>>
    ELSE merge_parts([k \in DOMAIN segs |-> segs[Len(segs) + 1 - k]], mapping, 1)

\* lines 652-685
merge_segments(segs, mapping) ==
    IF segs = <<>> THEN <<>>
    ELSE (IF mapping # NoMapping THEN << SummaryPart(mapping) >> ELSE <<>>)
         \o merge_parts(segs, mapping, 1)

RECURSIVE transcript_chars(_, _)
\* the characters of a transcript from part k on, as estimate_tokens counts them
transcript_chars(parts, k) ==
    IF k > Len(parts) THEN EmptyText
    ELSE LET rest == transcript_chars(parts, k + 1)
         IN  IF parts[k].kind = "text"
             THEN [rest EXCEPT !.cjk = @ + parts[k].text.cjk,
                               !.other = @ + parts[k].text.other]
             ELSE [rest EXCEPT !.other = @ + 2]

\* lines 70-74: the optimization template rendered with the transcript
OptimizationPrompt(parts) ==
    LET body == transcript_chars(parts, 1)
    IN  [id |-> <<"optimization">>, cjk |-> body.cjk + 8,
         other |-> body.other + 2, lines |-> <<>>]

\* lines 85-94: the text taken from a response with or without the marker of
\* the second part
extract_optimized(with_marker) ==
    IF with_marker THEN << TextPart(OptimizedText) >>
    ELSE << TextPart([id |-> <<"raw response">>, cjk |-> 7, other |-> 6,
                      lines |-> <<>>]) >>

\* the whole response.text of the optimizer's call
FullResponse(with_marker) ==
    IF with_marker THEN [id |-> <<"analysis and text">>, cjk |-> 9, other |-> 8,
                         lines |-> <<>>]
    ELSE [id |-> <<"raw response">>, cjk |-> 7, other |-> 6, lines |-> <<>>]

\* the entries of a metadata dict the model follows; keys tells which of them
\* the dict holds
Metadata(keys, e, input_tokens, output_tokens) ==
    [keys |-> keys, error |-> e, input_tokens |-> input_tokens,
     output_tokens |-> output_tokens,
     total_tokens |-> input_tokens + output_tokens]

NoResult == [kind |-> "none", content |-> <<>>, error |-> NoError,
             tokens_consumed |-> <<>>,
             metadata |-> Metadata({}, NoError, 0, 0)]

\* a failure result that keeps the text of the segments transcribed so far
error_result_partial(e) ==
    [kind |-> "returned", content |-> merge_segments(transcription_segments, NoMapping),
     error |-> e, tokens_consumed |-> <<>>,
     metadata |-> Metadata({"error"}, e, 0, 0)]

\* lines 451-461
error_result(e) ==
    [kind |-> "returned", content |-> <<>>, error |-> e,
     tokens_consumed |-> <<>>,
     metadata |-> Metadata({"error"}, e, 0, 0)]

\* lines 557-578 and 421-449
success_result(text, input_tokens, output_tokens) ==
    [kind |-> "returned", content |-> text, error |-> NoError,
     tokens_consumed |-> << input_tokens, output_tokens,
                            input_tokens + output_tokens >>,
     metadata |->
        Metadata({"model_used", "input_tokens", "output_tokens",
                  "total_tokens", "timestamp", "estimated_cost",
                  "original_file", "file_size", "duration",
                  "processing_mode", "enable_text_optimization"}
                    \cup (IF options.enable_text_optimization
                          THEN {"original_text", "optimized_text"} ELSE {})
                    \cup (IF text # <<>> /\ options.enable_speaker_diarization
                          THEN {"speakers_count", "speakers"} ELSE {}),
                 NoError, input_tokens, output_tokens)]

(***************************************************************************)
(* TranscriptionService.process and _transcribe_audio                      *)
(***************************************************************************)
\* a loop that hands the whole recording to every call
StartSegment_whole(path, first) ==
    /\ stack' = << Frame(InputPath, 0) >>
    /\ seg_out' = NoOut
    /\ log' = IF first THEN <<>> ELSE << Sleep("between_segments", segment_pause) >>

\* the call of lines 490, 504 or 537 begins
StartSegment(path, first) ==
    /\ stack' = << Frame(path, 0) >>
    /\ seg_out' = NoOut
    /\ log' = IF first THEN <<>> ELSE << Sleep("between_segments", segment_pause) >>

\* lines 376-419 and 477-486 / 535-541
process_begin ==
    /\ pc = "start"
    /\ \E raised \in {"input", "getsize", "none"}, measured \in BOOLEAN :
         IF raised = "input"
         THEN /\ result' = error_result(<<"input">>)
              /\ pc' = "finally"
              /\ UNCHANGED <<audio_processor, speaker_analyzer, split_pc, stack,
                             seg_out, log, mode>>
         ELSE /\ audio_processor' = TRUE
              /\ speaker_analyzer' =
                    IF options.enable_speaker_diarization
                       /\ options.maintain_speaker_consistency
                    THEN NewAnalyzer(run) ELSE speaker_analyzer
              /\ IF raised = "getsize"
                 THEN /\ result' = error_result(<<"getsize">>)
                      /\ pc' = "finally"
                      /\ UNCHANGED <<split_pc, stack, seg_out, log, mode>>
                 ELSE IF pydub_available /\ measured
                         /\ total_duration > max_duration_ms
                 THEN /\ split_pc' = "begin"
                      /\ pc' = "split"
                      /\ UNCHANGED <<result, stack, seg_out, log, mode>>
                 ELSE /\ mode' = "short"
                      /\ pc' = "segment"
                      /\ StartSegment(InputPath, TRUE)
                      /\ UNCHANGED <<result, split_pc>>
    /\ UNCHANGED <<pydub_available, total_duration, max_duration_minutes,
                   silence_chunks, segments, current_start, segment_index,
                   segments_info, returned_at, temp_folder_exists, temp_folder,
                   backend_config, concurrent_vars, provider_vars, outage, faults_left,
                   next_handle, remote_files, options, seg_i,
                   transcription_segments, total_input_tokens,
                   total_output_tokens, transcribed_text, opt_retry_count,
                   opt_stats, usage, run, speaker_mapping, rmtree_calls>>

\* lines 486-508: split_audio has returned
process_after_split ==
    /\ pc = "split"
    /\ split_pc = "returned"
    /\ mode' = IF Len(segments_info) = 1 THEN "single" ELSE "multi"
    /\ pc' = "segment"
    /\ seg_i' = 0
    /\ StartSegment(segments_info[1].path, TRUE)
    /\ UNCHANGED <<split_vars, backend_config, concurrent_vars, provider_vars, outage,
                   faults_left, next_handle, remote_files, options,
                   audio_processor, transcription_segments,
                   total_input_tokens, total_output_tokens, transcribed_text,
                   opt_retry_count, opt_stats, usage, run, speaker_analyzer,
                   speaker_mapping, result, rmtree_calls>>

\* lines 545-578 and 421-449 when no optimization runs, else the way into it
AfterTranscription(text, input_tokens, output_tokens) ==
    /\ transcribed_text' = text
    /\ total_input_tokens' = input_tokens
    /\ total_output_tokens' = output_tokens
    /\ IF options.enable_text_optimization /\ text # <<>>
       THEN /\ pc' = "optimize"
            /\ UNCHANGED result
       ELSE /\ pc' = "finally"
            /\ result' = success_result(text, input_tokens, output_tokens)

\* a total that keeps only the latest count
accumulate_latest(total, count) == count

\* lines 494-495, 510-511, 541-542, 553-554: total += count
accumulate(total, count) == total + count

\* lines 519-520: the speakers of a segment text, [] without an analyzer
SegmentSpeakers(text) ==
    IF speaker_analyzer # NoAnalyzer THEN Orders(extract_speakers(text))
    ELSE {<<>>}

\* lines 528-534 and 545-578: every segment is transcribed
resolve_and_merge(segs, input_tokens, output_tokens) ==
    LET resolves == /\ options.maintain_speaker_consistency
                    /\ speaker_analyzer # NoAnalyzer
                    /\ segs # <<>>
        resolved == map_speakers_across_segments(speaker_analyzer, segs)
        mapping == IF resolves THEN resolved.analyzer.global_speaker_map
                   ELSE NoMapping
    IN  IF resolves /\ resolved.raised
        THEN /\ speaker_analyzer' = resolved.analyzer
             /\ result' = error_result(<<"TypeError">>)
             /\ pc' = "finally"
             /\ total_input_tokens' = input_tokens
             /\ total_output_tokens' = output_tokens
             /\ UNCHANGED <<speaker_mapping, transcribed_text>>
        ELSE /\ speaker_analyzer' = IF resolves THEN resolved.analyzer
                                    ELSE speaker_analyzer
             /\ speaker_mapping' = mapping
             /\ AfterTranscription(merge_segments(segs, mapping),
                                   input_tokens, output_tokens)

\* lines 490-496, 504-534, 537-543: the segment call has ended
segment_done ==
    /\ pc = "segment"
    /\ stack = <<>>
    /\ seg_out.kind # "none"
    /\ IF seg_out.kind = "raise"
       THEN /\ result' = error_result(seg_out.error)
            /\ pc' = "finally"
            /\ UNCHANGED <<stack, seg_out, log, seg_i, transcription_segments,
                           total_input_tokens, total_output_tokens,
                           transcribed_text, speaker_analyzer, speaker_mapping>>
       ELSE LET input_tokens == accumulate(total_input_tokens,
                                            seg_out.tokens.input)
                output_tokens == accumulate(total_output_tokens,
                                             seg_out.tokens.output)
            IN  IF mode # "multi"
                THEN /\ AfterTranscription(AsTranscript(seg_out.text),
                                           input_tokens, output_tokens)
                     /\ UNCHANGED <<stack, seg_out, log, seg_i,
                                    transcription_segments, speaker_analyzer,
                                    speaker_mapping>>
                ELSE \E speakers \in SegmentSpeakers(seg_out.text) :
                     LET info == segments_info[seg_i + 1]
                         appended ==
                            IF seg_out.text # EmptyText
                            THEN Append(transcription_segments,
                                    TranscriptionSegment(seg_i, info.start,
                                                         info.end, seg_out.text,
                                                         speakers))
                            ELSE transcription_segments
                     IN  /\ transcription_segments' = appended
                         /\ IF seg_i < Len(segments_info) - 1
                            THEN /\ seg_i' = seg_i + 1
                                 /\ StartSegment(segments_info[seg_i + 2].path, FALSE)
                                 /\ total_input_tokens' = input_tokens
                                 /\ total_output_tokens' = output_tokens
                                 /\ UNCHANGED <<pc, result, transcribed_text,
                                                speaker_analyzer, speaker_mapping>>
                            ELSE /\ resolve_and_merge(appended, input_tokens,
                                                      output_tokens)
                                 /\ UNCHANGED <<stack, seg_out, log, seg_i>>
    /\ UNCHANGED <<split_vars, backend_config, concurrent_vars, provider_vars, outage,
                   faults_left, next_handle, remote_files, usage, options,
                   audio_processor, mode, opt_retry_count, opt_stats, run,
                   rmtree_calls>>

NoStats == [error |-> NoError, input |-> 0, output |-> 0]

\* an optimizer whose failure fails the file
optimize_failed_fatal(e) ==
    /\ opt_stats' = [error |-> e, input |-> 0, output |-> 0]
    /\ result' = error_result(e)
    /\ pc' = "finally"
    /\ UNCHANGED <<transcribed_text, total_input_tokens, total_output_tokens,
                   opt_retry_count, usage>>

\* lines 101-104 and 547-578: optimize_transcript caught e and hands back
\* the original text with {'error': str(e)}
optimize_failed(e) ==
    /\ opt_stats' = [error |-> e, input |-> 0, output |-> 0]
    /\ result' = success_result(transcribed_text, total_input_tokens,
                                total_output_tokens)
    /\ pc' = "finally"
    /\ UNCHANGED <<transcribed_text, total_input_tokens, total_output_tokens,
                   opt_retry_count, usage>>

\* lines 547-555 with TextOptimizer.optimize_transcript (61-104): get_template
\* raises, or one activation of its generate_content call takes place
optimize_attempt ==
    /\ pc = "optimize"
    /\ \/ /\ opt_retry_count = 0
          /\ optimize_failed(<<"template missing">>)
          /\ UNCHANGED <<faults_left, outage>>
       \/ \E r \in Results("generate"), with_marker \in BOOLEAN :
            /\ Spend("generate", r)
            /\ IF r = "ok"
               THEN LET stats == statistics(OptimizationPrompt(transcribed_text),
                                            FullResponse(with_marker),
                                            opt_retry_count)
                        text == extract_optimized(with_marker)
                        input_tokens == accumulate(total_input_tokens, stats.input)
                        output_tokens == accumulate(total_output_tokens,
                                                    stats.output)
                    IN  /\ opt_stats' = [error |-> NoError, input |-> stats.input,
                                         output |-> stats.output]
                        /\ usage' = Append(usage, stats)
                        /\ transcribed_text' = text
                        /\ total_input_tokens' = input_tokens
                        /\ total_output_tokens' = output_tokens
                        /\ result' = success_result(text, input_tokens,
                                                    output_tokens)
                        /\ pc' = "finally"
                        /\ UNCHANGED opt_retry_count
               ELSE IF opt_retry_count < gc_max_retries /\ should_retry(<<r>>)
               THEN /\ opt_retry_count' = opt_retry_count + 1
                    /\ UNCHANGED <<transcribed_text, total_input_tokens,
                                   total_output_tokens, result, pc, opt_stats,
                                   usage>>
               ELSE optimize_failed(<<"model call failed", r>>)
    /\ UNCHANGED <<split_vars, backend_config, concurrent_vars, provider_vars,
                   next_handle, remote_files, log, segment_vars, options,
                   audio_processor, mode, seg_i, transcription_segments,
                   run, speaker_analyzer, speaker_mapping, rmtree_calls>>

\* a process that cleans the temp folder only after a success
process_finally_on_success ==
    /\ pc = "finally"
    /\ IF audio_processor /\ temp_folder_exists /\ result.error = NoError
       THEN \E removed \in BOOLEAN :
              /\ rmtree_calls' = rmtree_calls + 1
              /\ temp_folder' = IF removed THEN {} ELSE temp_folder
              /\ temp_folder_exists' = ~removed
       ELSE UNCHANGED <<rmtree_calls, temp_folder, temp_folder_exists>>
    /\ pc' = "done"
    /\ UNCHANGED <<pydub_available, total_duration, max_duration_minutes,
                   silence_chunks, split_pc, segments, current_start,
                   segment_index, segments_info, returned_at, backend_vars, concurrent_vars,
                   segment_vars, options, audio_processor, mode, seg_i,
                   transcription_segments, total_input_tokens,
                   total_output_tokens, transcribed_text, opt_retry_count,
                   opt_stats, run, speaker_analyzer, speaker_mapping, result>>

\* lines 462-465 with AudioProcessor.cleanup_temp_files (220-227)
process_finally ==
    /\ pc = "finally"
    /\ IF audio_processor /\ temp_folder_exists
       THEN \E removed \in BOOLEAN :
              /\ rmtree_calls' = rmtree_calls + 1
              /\ temp_folder' = IF removed THEN {} ELSE temp_folder
              /\ temp_folder_exists' = ~removed
       ELSE UNCHANGED <<rmtree_calls, temp_folder, temp_folder_exists>>
    /\ pc' = "done"
    /\ UNCHANGED <<pydub_available, total_duration, max_duration_minutes,
                   silence_chunks, split_pc, segments, current_start,
                   segment_index, segments_info, returned_at, backend_vars, concurrent_vars,
                   segment_vars, options, audio_processor, mode, seg_i,
                   transcription_segments, total_input_tokens,
                   total_output_tokens, transcribed_text, opt_retry_count,
                   opt_stats, run, speaker_analyzer, speaker_mapping, result>>

(***************************************************************************)
(* Specifications                                                          *)
(***************************************************************************)
split_step ==
    /\ \/ split_audio_begin
       \/ split_audio_iterate
       \/ split_audio_return
    /\ UNCHANGED <<backend_vars, concurrent_vars, segment_vars, process_vars>>

\* a recording in which the model labels no speaker
Unlabelled == [n \in 0..MaxSegments |-> <<>>]

SpeakerA == Label("shuohuaren", "A")
SpeakerB == Label("shuohuaren", "B")
Speaker1 == Label("shuohuaren", "1")
Speaker2 == Label("shuohuaren", "2")

\* a recording of two people: the model labels them A and B in the first
\* part and calls the first of them 1 in the second part
Dialogue ==
    [n \in 0..MaxSegments |->
        IF n = 0 THEN << Utterance(SpeakerA, "ascii", {"polite", "filler"}),
                         Utterance(SpeakerB, "wide", {"polite", "filler"}) >>
        ELSE IF n = 1 THEN << Utterance(Speaker1, "ascii", {"polite", "filler"}) >>
        ELSE <<>>]

\* the recordings process is followed on: 5 minutes; 20 min 15 s without
\* silence, with and without speaker labels; the 45-minute recording with
\* silences at 19:50 and 39:40, with speech everywhere or with no speech in
\* its second part
Files ==
    { [total_duration |-> 300000, silence_chunks |-> <<>>, silent |-> {},
       script |-> Unlabelled],
      [total_duration |-> 1215000, silence_chunks |-> <<>>, silent |-> {},
       script |-> Unlabelled],
      [total_duration |-> 1215000, silence_chunks |-> <<>>, silent |-> {},
       script |-> Dialogue] }
    \cup { [total_duration |-> 2700000,
            silence_chunks |-> << <<1190000, 1190800>>, <<2380000, 2380800>> >>,
            silent |-> q, script |-> Unlabelled] : q \in {{}, {1}} }

OptionChoices ==
    [enable_speaker_diarization : BOOLEAN,
     maintain_speaker_consistency : {TRUE},
     enable_text_optimization : BOOLEAN]

\* no process has run on the service yet.  The backend of the run is either
\* in an outage or may fail MaxFaults single calls, at any place.
Idle ==
    /\ is_initialized \in BOOLEAN
    /\ outage \in Outages
    /\ is_initialized \/ outage = NoOutage
    /\ processing_polls \in 0..MaxPolls
    /\ faults_left = IF outage = NoOutage THEN MaxFaults ELSE 0
    /\ next_handle = 1
    /\ remote_files = {}
    /\ log = <<>>
    /\ usage = <<>>
    /\ stack = <<>>
    /\ seg_out = NoOut
    /\ options \in OptionChoices
    /\ audio_processor = FALSE
    /\ mode = ""
    /\ seg_i = 0
    /\ transcription_segments = <<>>
    /\ total_input_tokens = 0
    /\ total_output_tokens = 0
    /\ transcribed_text = <<>>
    /\ opt_retry_count = 0
    /\ opt_stats = NoStats
    /\ run = 1
    /\ speaker_analyzer = NoAnalyzer
    /\ speaker_mapping = NoMapping
    /\ result = NoResult
    /\ rmtree_calls = 0
    /\ provider = NoProvider
    /\ temp_segments = NoFolder
    /\ services = NoServices
    /\ provider_call = NoCall

Init ==
    /\ pydub_available \in BOOLEAN
    /\ max_duration_minutes = 20
    /\ \E f \in Files :
         /\ total_duration = f.total_duration
         /\ silence_chunks = f.silence_chunks
         /\ silent_segments = f.silent
         /\ script = f.script
         /\ pydub_available \/ (total_duration > max_duration_ms /\ f.silent = {})
    /\ split_pc = "idle"
    /\ segments = <<>>
    /\ current_start = 0
    /\ segment_index = 0
    /\ segments_info = <<>>
    /\ returned_at = 0
    /\ temp_folder_exists = FALSE
    /\ temp_folder = {}
    /\ Idle
    /\ pc = "start"

Next ==
    \/ process_begin
    \/ split_step
    \/ process_after_split
    \/ segment_step
    \/ segment_done
    \/ optimize_attempt
    \/ process_finally

Spec == Init /\ [][Next]_vars

\* split_audio called on its own
SplitStart ==
    /\ SplitInit
    /\ is_initialized = TRUE
    /\ outage = NoOutage
    /\ processing_polls = 0
    /\ silent_segments = {}
    /\ script = Unlabelled
    /\ faults_left = 0
    /\ next_handle = 1
    /\ remote_files = {}
    /\ log = <<>>
    /\ usage = <<>>
    /\ stack = <<>>
    /\ seg_out = NoOut
    /\ options = [enable_speaker_diarization |-> TRUE,
                  maintain_speaker_consistency |-> TRUE,
                  enable_text_optimization |-> FALSE]
    /\ audio_processor = TRUE
    /\ mode = ""
    /\ seg_i = 0
    /\ transcription_segments = <<>>
    /\ total_input_tokens = 0
    /\ total_output_tokens = 0
    /\ transcribed_text = <<>>
    /\ opt_retry_count = 0
    /\ opt_stats = NoStats
    /\ run = 1
    /\ speaker_analyzer = NoAnalyzer
    /\ speaker_mapping = NoMapping
    /\ result = NoResult
    /\ rmtree_calls = 0
    /\ provider = NoProvider
    /\ temp_segments = NoFolder
    /\ services = NoServices
    /\ provider_call = NoCall
    /\ pc = "split"

SplitNext == split_step

SplitSpec == SplitStart /\ [][SplitNext]_vars

\* every combination of the options
ServiceOptions ==
    [enable_speaker_diarization : BOOLEAN,
     maintain_speaker_consistency : BOOLEAN,
     enable_text_optimization : BOOLEAN]

\* the caller calls process again on the same service instance (the service
\* is kept in the session, lines 333-342 run once): the locals of the call
\* are new, the attributes of the instance and the files stay
process_again ==
    /\ pc = "done"
    /\ run < MaxRuns
    /\ run' = run + 1
    /\ options' \in ServiceOptions
    /\ pc' = "start"
    /\ split_pc' = "idle"
    /\ segments' = <<>>
    /\ current_start' = 0
    /\ segment_index' = 0
    /\ segments_info' = <<>>
    /\ returned_at' = 0
    /\ log' = <<>>
    /\ usage' = <<>>
    /\ stack' = <<>>
    /\ seg_out' = NoOut
    /\ mode' = ""
    /\ seg_i' = 0
    /\ transcription_segments' = <<>>
    /\ total_input_tokens' = 0
    /\ total_output_tokens' = 0
    /\ transcribed_text' = <<>>
    /\ opt_retry_count' = 0
    /\ opt_stats' = NoStats
    /\ speaker_mapping' = NoMapping
    /\ result' = NoResult
    /\ rmtree_calls' = 0
    /\ UNCHANGED <<pydub_available, total_duration, max_duration_minutes,
                   silence_chunks, temp_folder_exists, temp_folder,
                   backend_config, concurrent_vars, provider_vars, outage, faults_left, next_handle,
                   remote_files, audio_processor, speaker_analyzer>>

\* a service whose backend works, given the recording of 20 min 15 s
ServiceStart ==
    /\ pydub_available = TRUE
    /\ max_duration_minutes = 20
    /\ total_duration = 1215000
    /\ silence_chunks = <<>>
    /\ silent_segments = {}
    /\ script \in {Unlabelled, Dialogue}
    /\ split_pc = "idle"
    /\ segments = <<>>
    /\ current_start = 0
    /\ segment_index = 0
    /\ segments_info = <<>>
    /\ returned_at = 0
    /\ temp_folder_exists = FALSE
    /\ temp_folder = {}
    /\ is_initialized = TRUE
    /\ outage = NoOutage
    /\ processing_polls = 1
    /\ faults_left = 0
    /\ next_handle = 1
    /\ remote_files = {}
    /\ log = <<>>
    /\ usage = <<>>
    /\ stack = <<>>
    /\ seg_out = NoOut
    /\ options \in ServiceOptions
    /\ audio_processor = FALSE
    /\ mode = ""
    /\ seg_i = 0
    /\ transcription_segments = <<>>
    /\ total_input_tokens = 0
    /\ total_output_tokens = 0
    /\ transcribed_text = <<>>
    /\ opt_retry_count = 0
    /\ opt_stats = NoStats
    /\ run = 1
    /\ speaker_analyzer = NoAnalyzer
    /\ speaker_mapping = NoMapping
    /\ result = NoResult
    /\ rmtree_calls = 0
    /\ provider = NoProvider
    /\ temp_segments = NoFolder
    /\ services = NoServices
    /\ provider_call = NoCall
    /\ pc = "start"

ServiceNext ==
    \/ process_begin
    \/ split_step
    \/ process_after_split
    \/ segment_step
    \/ segment_done
    \/ optimize_attempt
    \/ process_finally
    \/ process_again

ServiceSpec == ServiceStart /\ [][ServiceNext]_vars

\* the texts apply_speaker_mapping is followed on: up to MaxLines labelled
\* utterances of the speakers 1, 2 and A
LabelledLines ==
    UNION {[1..n -> {Utterance(label, colon, {}) :
                       label \in {Speaker1, Speaker2, SpeakerA},
                       colon \in {"ascii", "wide"}}] : n \in 1..MaxLines}

\* the mappings that give some of the speakers of a segment a global speaker
Mappings(segment) ==
    LET keys == {<<segment.segment_index, segment.speakers[j]>> :
                   j \in DOMAIN segment.speakers}
    IN  UNION {[chosen -> {GlobalSpeaker(id) : id \in 1..MaxLines}] :
                 chosen \in SUBSET keys}

\* apply_speaker_mapping called on its own: the segment is the one element
\* of transcription_segments, the mapping is speaker_mapping
ApplyStart ==
    /\ pydub_available = TRUE
    /\ max_duration_minutes = 20
    /\ total_duration = 1215000
    /\ silence_chunks = <<>>
    /\ silent_segments = {}
    /\ script = Unlabelled
    /\ split_pc = "idle"
    /\ segments = <<>>
    /\ current_start = 0
    /\ segment_index = 0
    /\ segments_info = <<>>
    /\ returned_at = 0
    /\ temp_folder_exists = FALSE
    /\ temp_folder = {}
    /\ is_initialized = TRUE
    /\ outage = NoOutage
    /\ processing_polls = 0
    /\ faults_left = 0
    /\ next_handle = 1
    /\ remote_files = {}
    /\ log = <<>>
    /\ usage = <<>>
    /\ stack = <<>>
    /\ seg_out = NoOut
    /\ options = [enable_speaker_diarization |-> TRUE,
                  maintain_speaker_consistency |-> TRUE,
                  enable_text_optimization |-> FALSE]
    /\ audio_processor = FALSE
    /\ mode = ""
    /\ seg_i = 0
    /\ \E lines \in LabelledLines :
         LET text == [SpokenText(0) EXCEPT !.lines = lines]
         IN  \E speakers \in Orders(extract_speakers(text)) :
               LET segment == TranscriptionSegment(0, ToSeconds(0),
                                                   ToSeconds(1200000), text,
                                                   speakers)
               IN  /\ transcription_segments = << segment >>
                   /\ speaker_mapping \in Mappings(segment)
    /\ total_input_tokens = 0
    /\ total_output_tokens = 0
    /\ transcribed_text = <<>>
    /\ opt_retry_count = 0
    /\ opt_stats = NoStats
    /\ run = 1
    /\ speaker_analyzer = NewAnalyzer(1)
    /\ result = NoResult
    /\ rmtree_calls = 0
    /\ provider = NoProvider
    /\ temp_segments = NoFolder
    /\ services = NoServices
    /\ provider_call = NoCall
    /\ pc = "apply"

\* lines 304-315: the call returns the text
apply_speaker_mapping_call ==
    /\ pc = "apply"
    /\ transcribed_text' =
          << TextPart(apply_speaker_mapping(transcription_segments[1],
                                            speaker_mapping)) >>
    /\ pc' = "applied"
    /\ UNCHANGED <<split_vars, backend_vars, concurrent_vars, segment_vars, options,
                   audio_processor, mode, seg_i, transcription_segments,
                   total_input_tokens, total_output_tokens, opt_retry_count,
                   opt_stats, run, speaker_analyzer, speaker_mapping, result,
                   rmtree_calls>>

ApplyNext == apply_speaker_mapping_call

ApplySpec == ApplyStart /\ [][ApplyNext]_vars

\* a generate loop is called on an initialized object whose max_retries is
\* the default 3 or less
RetryStart ==
    /\ pydub_available = TRUE
    /\ max_duration_minutes = 20
    /\ total_duration = 300000
    /\ silence_chunks = <<>>
    /\ silent_segments = {}
    /\ script = Unlabelled
    /\ split_pc = "idle"
    /\ segments = <<>>
    /\ current_start = 0
    /\ segment_index = 0
    /\ segments_info = <<>>
    /\ returned_at = 0
    /\ temp_folder_exists = FALSE
    /\ temp_folder = {}
    /\ is_initialized = TRUE
    /\ outage = NoOutage
    /\ processing_polls = 0
    /\ faults_left = 0
    /\ next_handle = 1
    /\ remote_files = {}
    /\ log = <<>>
    /\ usage = <<>>
    /\ stack = <<>>
    /\ seg_out = NoOut
    /\ options = [enable_speaker_diarization |-> TRUE,
                  maintain_speaker_consistency |-> TRUE,
                  enable_text_optimization |-> FALSE]
    /\ audio_processor = FALSE
    /\ mode = ""
    /\ seg_i = 0
    /\ transcription_segments = <<>>
    /\ total_input_tokens = 0
    /\ total_output_tokens = 0
    /\ transcribed_text = <<>>
    /\ opt_retry_count = 0
    /\ opt_stats = NoStats
    /\ run = 1
    /\ speaker_analyzer = NoAnalyzer
    /\ speaker_mapping = NoMapping
    /\ result = NoResult
    /\ rmtree_calls = 0
    /\ temp_segments = NoFolder
    /\ services = NoServices
    /\ provider \in [name : {"gemini", "qwen", "model_interface"},
                      max_retries : 0..MaxRetries]
    /\ provider_call = [NoCall EXCEPT !.pc = "try"]
    /\ pc = "generate"

RetryNext ==
    \/ gemini_generate_with_retry
    \/ qwen_generate_with_retry
    \/ generate_content

RetrySpec == RetryStart /\ [][RetryNext]_vars

(***************************************************************************)
(* Two TranscriptionService instances whose process calls run at the same  *)
(* time in one working directory.  Both have temp_folder "temp_segments"   *)
(* (line 340) and both name their segment files segment_000.m4a,           *)
(* segment_001.m4a, ... (line 198).  temp_segments.files[n] is the         *)
(* instance whose audio the file segment_n holds, 0 if there is no file.   *)
(***************************************************************************)
Instances == {1, 2}

\* the process call of an instance whose long file is cut into `cuts` pieces
ServiceRun(cuts) ==
    [pc |-> "split", cuts |-> cuts, segment_index |-> 0, i |-> 0,
     segments_info |-> "none", heard |-> <<>>, error |-> FALSE]

\* line 171: os.makedirs(self.temp_folder, exist_ok=True)
shared_makedirs(r) ==
    /\ UNCHANGED <<split_vars, backend_vars, segment_vars, process_vars>>
    /\ services[r].pc = "split"
    /\ temp_segments' = [temp_segments EXCEPT !.exists = TRUE]
    /\ services' = [services EXCEPT ![r].pc = "export"]

\* lines 197-211: the export of segment_{segment_index:03d}.m4a, which
\* replaces a file of that name; if the directory is gone the export raises
\* and lines 216-218 return [(file_path, 0, 0)]
shared_export(r) ==
    /\ UNCHANGED <<split_vars, backend_vars, segment_vars, process_vars>>
    /\ services[r].pc = "export"
    /\ services[r].segment_index < services[r].cuts
    /\ IF temp_segments.exists
       THEN /\ temp_segments' = [temp_segments EXCEPT
                                   !.files[services[r].segment_index] = r]
            /\ services' = [services EXCEPT ![r].segment_index = @ + 1]
       ELSE /\ services' = [services EXCEPT ![r].pc = "transcribe",
                                            ![r].segments_info = "fallback"]
            /\ UNCHANGED temp_segments

\* lines 213-214
shared_split_return(r) ==
    /\ UNCHANGED <<split_vars, backend_vars, segment_vars, process_vars>>
    /\ services[r].pc = "export"
    /\ services[r].segment_index = services[r].cuts
    /\ services' = [services EXCEPT ![r].pc = "transcribe",
                                    ![r].segments_info = "segments"]
    /\ UNCHANGED temp_segments

\* lines 488-526: the segment call of the next path of segments_info; heard
\* records whose audio genai.upload_file read from that path (0: no file,
\* every upload raises and process ends with an error)
shared_transcribe_segment(r) ==
    /\ UNCHANGED <<split_vars, backend_vars, segment_vars, process_vars>>
    /\ services[r].pc = "transcribe"
    /\ UNCHANGED temp_segments
    /\ IF services[r].segments_info = "fallback"
       THEN services' = [services EXCEPT ![r].heard = Append(@, r),
                                         ![r].pc = "cleanup"]
       ELSE LET n == services[r].i
                read == IF temp_segments.exists THEN temp_segments.files[n]
                        ELSE 0
            IN  IF read = 0
                THEN services' = [services EXCEPT ![r].heard = Append(@, 0),
                                                  ![r].error = TRUE,
                                                  ![r].pc = "cleanup"]
                ELSE services' = [services EXCEPT
                        ![r].heard = Append(@, read),
                        ![r].i = n + 1,
                        ![r].pc = IF n + 1 = services[r].cuts THEN "cleanup"
                                  ELSE "transcribe"]

\* lines 462-465 and 220-227: the finally of process removes the whole
\* directory
shared_cleanup_temp_files(r) ==
    /\ UNCHANGED <<split_vars, backend_vars, segment_vars, process_vars>>
    /\ services[r].pc = "cleanup"
    /\ temp_segments' = IF temp_segments.exists THEN NoFolder ELSE temp_segments
    /\ services' = [services EXCEPT ![r].pc = "done"]

ConcurrentStart ==
    /\ pydub_available = TRUE
    /\ max_duration_minutes = 20
    /\ total_duration = 300000
    /\ silence_chunks = <<>>
    /\ silent_segments = {}
    /\ script = Unlabelled
    /\ split_pc = "idle"
    /\ segments = <<>>
    /\ current_start = 0
    /\ segment_index = 0
    /\ segments_info = <<>>
    /\ returned_at = 0
    /\ temp_folder_exists = FALSE
    /\ temp_folder = {}
    /\ is_initialized = TRUE
    /\ outage = NoOutage
    /\ processing_polls = 0
    /\ faults_left = 0
    /\ next_handle = 1
    /\ remote_files = {}
    /\ log = <<>>
    /\ usage = <<>>
    /\ stack = <<>>
    /\ seg_out = NoOut
    /\ options = [enable_speaker_diarization |-> TRUE,
                  maintain_speaker_consistency |-> TRUE,
                  enable_text_optimization |-> FALSE]
    /\ audio_processor = TRUE
    /\ mode = ""
    /\ seg_i = 0
    /\ transcription_segments = <<>>
    /\ total_input_tokens = 0
    /\ total_output_tokens = 0
    /\ transcribed_text = <<>>
    /\ opt_retry_count = 0
    /\ opt_stats = NoStats
    /\ run = 1
    /\ speaker_analyzer = NoAnalyzer
    /\ speaker_mapping = NoMapping
    /\ result = NoResult
    /\ rmtree_calls = 0
    /\ provider = NoProvider
    /\ provider_call = NoCall
    /\ pc = "concurrent"
    /\ temp_segments = NoFolder
    /\ \E a \in 2..MaxSegments, b \in 2..MaxSegments :
         services = [r \in Instances |-> ServiceRun(IF r = 1 THEN a ELSE b)]

ConcurrentNext ==
    \E r \in Instances :
       \/ shared_makedirs(r)
       \/ shared_export(r)
       \/ shared_split_return(r)
       \/ shared_transcribe_segment(r)
       \/ shared_cleanup_temp_files(r)

ConcurrentSpec == ConcurrentStart /\ [][ConcurrentNext]_vars

(***************************************************************************)
(* Properties of _transcribe_single_segment and process (checked under     *)
(* Spec)                                                                   *)
(***************************************************************************)
\* the outermost call of _transcribe_single_segment has handed over
SegmentCallEnded == stack = <<>> /\ seg_out.kind # "none"

IsGenerate(entry) == entry.op = "generate"
IsGenerateSleep(entry) == entry.op = "sleep" /\ entry.res = "generate_retry"
IsBackendCall(entry) == entry.op \in {"upload", "get_file", "generate"}

\* the generate calls of the segment call, in order, and their results
GenerateCalls == SelectSeq(log, IsGenerate)
GenerateResults == [i \in 1..Len(GenerateCalls) |-> GenerateCalls[i].res]
GenerateSleeps ==
    LET q == SelectSeq(log, IsGenerateSleep)
    IN  [i \in 1..Len(q) |-> q[i].n]

UploadsSucceeded ==
    \A i \in 1..Len(log) :
        log[i].op \in {"upload", "get_file"} =>
            log[i].res \in {"ok", "ACTIVE", "PROCESSING"}

EveryGenerateFailedRetryable ==
    /\ GenerateCalls # <<>>
    /\ \A i \in 1..Len(GenerateCalls) : should_retry(<< GenerateCalls[i].res >>)

\* C1, as stated: when every generate call of a segment fails with a
\* retryable error, the exception reaches the caller after exactly
\* max_retries backend generate calls.
C1_AsStated ==
    (SegmentCallEnded /\ seg_out.kind = "raise" /\ UploadsSucceeded
        /\ EveryGenerateFailedRetryable)
    => Len(GenerateCalls) = max_retries

\* C2: when the generate call of a segment fails twice with a retryable
\* error and then succeeds, the segment call returns the text of the
\* successful call, the sleeps between the attempts are 2^0 then 2^1
\* seconds, and the reported tokens are those of the successful call alone.
C2_BackoffThenSuccess ==
    (SegmentCallEnded /\ GenerateResults = <<"503", "503", "ok">>)
    => /\ seg_out.kind = "return"
       /\ seg_out.text = GenerateCalls[3].text
       /\ GenerateSleeps = <<1, 2>>
       /\ GenerateSleeps[1] < GenerateSleeps[2]
       /\ seg_out.tokens =
            [input |-> estimate_tokens(PromptText(options.enable_speaker_diarization)),
             output |-> estimate_tokens(GenerateCalls[3].text)]

C2_Witness ==
    /\ SegmentCallEnded
    /\ GenerateResults = <<"503", "503", "ok">>
    /\ seg_out.text # EmptyText

\* C3, as stated: once get_file has reported FAILED for a segment, no
\* further upload, poll or generate call is made for that segment, and the
\* file ends with an error.
C3_AsStated ==
    /\ \A i \in 1..Len(log) :
          (log[i].op = "get_file" /\ log[i].res = "FAILED")
          => \A j \in (i + 1)..Len(log) : ~IsBackendCall(log[j])
    /\ (pc = "done" /\ \E i \in 1..Len(log) : log[i].res = "FAILED")
          => result.error # NoError

\* every handle a successful upload returned has a later delete_file attempt
HandlesReleased ==
    \A i \in 1..Len(log) :
        (log[i].op = "upload" /\ log[i].res = "ok")
        => \E j \in (i + 1)..Len(log) :
              log[j].op = "delete" /\ log[j].n = log[i].n

\* C4: when the segment call returns or raises to its caller, every handle
\* that a successful upload returned has had a delete_file attempt, and the
\* cleanup step of an activation, whether its delete_file fails or not,
\* leaves the value or exception of that activation as it was.
C4_HandlesReleased ==
    [][ /\ (stack' = <<>> /\ seg_out'.kind # "none") => HandlesReleased'
        /\ (stack # <<>> /\ Top.pc = "finally")
             => /\ Len(stack') = Len(stack)
                /\ stack'[Len(stack')].out = Top.out
                /\ stack'[Len(stack')].pc = "exit" ]_vars

C4_Witness ==
    /\ SegmentCallEnded
    /\ seg_out.kind = "raise"
    /\ \E i \in 1..Len(log) : log[i].op = "upload" /\ log[i].res = "ok"
    /\ \E i \in 1..Len(log) : log[i].op = "delete" /\ log[i].res # "ok"
    /\ HandlesReleased

\* process has returned after a segment call of a multi-segment file raised
SegmentFailed == pc = "done" /\ mode = "multi" /\ seg_out.kind = "raise"

\* C5: when the transcription of a segment of a multi-segment file fails in
\* the end, process returns (it does not raise) a result whose error is set
\* and whose content is empty, whatever was transcribed before.
C5_NoPartialResult ==
    SegmentFailed
    => /\ result.kind = "returned"
       /\ result.error # NoError
       /\ result.content = <<>>

C5_Witness ==
    /\ SegmentFailed
    /\ seg_i >= 1
    /\ transcription_segments # <<>>
    /\ result.content = <<>>

\* C6, as stated: the failure process reports for a segment whose retries
\* are exhausted names the index of that segment next to the underlying
\* error.
C6_AsStated ==
    SegmentFailed
    => /\ \E k \in 1..Len(result.error) : result.error[k] = ToString(seg_i)
       /\ \E k \in 1..Len(result.error) : result.error[k] \in Errors

\* C7: a run of process in which split_audio exported segment files ends,
\* on success and on failure alike, with an rmtree attempt on the temp
\* folder, and the final step of process returns the result it was given
\* whether that attempt fails or not.
C7_CleanupAlways ==
    [][ /\ (pc' = "done" /\ segment_index' > 0) => rmtree_calls' >= 1
        /\ pc = "finally" => (pc' = "done" /\ result' = result
                              /\ result.kind = "returned") ]_vars

C7_Witness ==
    /\ pc = "done"
    /\ segment_index > 0
    /\ result.error # NoError
    /\ rmtree_calls = 1
    /\ temp_folder # {}

\* the optimization pass has run and failed
OptimizationFailed == opt_stats.error # NoError

\* C16: when the optimization pass fails, because its template is missing or
\* because the backend fails after the retries, process still returns a
\* successful result: the content is the transcript as it was before the
\* pass, the error is unset, and the token totals are those from before the
\* pass.
C16_OptimizationNonFatal ==
    [][ /\ (pc = "optimize" /\ OptimizationFailed')
           => /\ pc' = "finally"
              /\ result'.kind = "returned"
              /\ result'.error = NoError
              /\ result'.content = transcribed_text
              /\ result'.tokens_consumed =
                    << total_input_tokens, total_output_tokens,
                       total_input_tokens + total_output_tokens >>
        /\ (pc' = "done" /\ OptimizationFailed')
           => /\ result'.error = NoError
              /\ result'.content = transcribed_text'
              /\ result'.content # <<>> ]_vars

C16_Witness ==
    /\ pc = "done"
    /\ OptimizationFailed
    /\ mode = "multi"
    /\ opt_retry_count = gc_max_retries
    /\ result.error = NoError
    /\ result.content = merge_segments(transcription_segments, speaker_mapping)

\* C17, as stated: when the optimization pass fails, the metadata of the
\* result process returns records the failure.
C17_AsStated ==
    (pc = "done" /\ OptimizationFailed)
    => \/ result.metadata.error # NoError
       \/ result.metadata.keys \cap {"error", "optimization_error"} # {}

RECURSIVE SumInput(_)
SumInput(q) == IF q = <<>> THEN 0 ELSE Head(q).input + SumInput(Tail(q))

RECURSIVE SumOutput(_)
SumOutput(q) == IF q = <<>> THEN 0 ELSE Head(q).output + SumOutput(Tail(q))

\* the optimization call was made and succeeded
OptimizationSucceeded == opt_stats # NoStats /\ opt_stats.error = NoError

\* audio segments the run had to transcribe
AudioSegments == IF mode = "short" THEN 1 ELSE Len(segments_info)

\* C18: on a successful run the metadata's input_tokens and output_tokens
\* are the sums of the counts of every generate call that succeeded, one
\* per audio segment (empty texts included) and one more when the
\* optimization call succeeded, and total_tokens is their sum.
C18_TokenSums ==
    (pc = "done" /\ result.error = NoError)
    => /\ Len(usage) = AudioSegments + (IF OptimizationSucceeded THEN 1 ELSE 0)
       /\ result.metadata.input_tokens = SumInput(usage)
       /\ result.metadata.output_tokens = SumOutput(usage)
       /\ result.metadata.total_tokens = SumInput(usage) + SumOutput(usage)
       /\ {"input_tokens", "output_tokens", "total_tokens"}
             \subseteq result.metadata.keys

C18_Witness ==
    /\ pc = "done"
    /\ result.error = NoError
    /\ Len(usage) = 4
    /\ OptimizationSucceeded
    /\ Len(transcription_segments) = 2
    /\ result.metadata.input_tokens = SumInput(usage)

\* the file states a call has let the caller observe
FileStates == {"ACTIVE", "PROCESSING", "FAILED"}

\* entry i of the log shows the caller the state of a handle
Observes(i) ==
    \/ log[i].op = "upload" /\ log[i].res = "ok"
    \/ log[i].op = "get_file" /\ log[i].res \in FileStates

\* the state entry i shows
Observed(i) == IF log[i].op = "upload" THEN UploadState ELSE log[i].res

\* the state of handle h most recently observed before entry i
LastObserved(h, i) ==
    LET seen == {j \in 1..(i - 1) : Observes(j) /\ log[j].n = h}
    IN  IF seen = {} THEN "unknown"
        ELSE Observed(CHOOSE j \in seen : \A k \in seen : k <= j)

ActivePaths == {stack[k].path : k \in DOMAIN stack}

\* the audio of the segment the loop of lines 498-526 is at
CurrentPath ==
    IF mode = "short" THEN InputPath ELSE segments_info[seg_i + 1].path

\* the step hands the segments over to the resolver and the merge
ResolverStep ==
    /\ pc = "segment"
    /\ pc' \in {"optimize", "finally"}
    /\ mode = "multi"
    /\ seg_out.kind = "return"

\* C22: every activation that makes backend calls works on the audio of
\* the segment the loop is at, with all its retries; the loop moves from
\* segment i to segment i + 1 only when the call for segment i has returned
\* and no activation is left, and it starts the next call from its first
\* attempt; the resolver and the merge run only after the call for the last
\* segment has returned.
C22_OneSegmentAtATime ==
    [][/\ stack' # <<>> => ActivePaths' = {CurrentPath'}
       /\ (pc = "segment" /\ seg_i' # seg_i)
             => /\ seg_i' = seg_i + 1
                /\ stack = <<>>
                /\ seg_out.kind = "return"
                /\ stack' = << Frame(segments_info[seg_i' + 1].path, 0) >>
       /\ ResolverStep
             => /\ stack = <<>>
                /\ seg_i = Len(segments_info) - 1
       /\ log' # log => (stack # <<>> \/ pc' = "segment")]_vars

\* a file in three segments is done although one backend call had failed
\* and was retried on the way
C22_Witness ==
    /\ pc = "done"
    /\ mode = "multi"
    /\ Len(segments_info) = 3
    /\ seg_i = 2
    /\ stack = <<>>
    /\ result.error = NoError
    /\ Len(transcription_segments) = 3
    /\ outage = NoOutage
    /\ faults_left < MaxFaults

\* the call for the last segment of a file in several segments has
\* returned, and the records went to the resolver and the merge
HandedOver ==
    /\ pc \in {"optimize", "finally", "done"}
    /\ mode = "multi"
    /\ seg_out.kind = "return"
    /\ seg_i = Len(segments_info) - 1

\* C23: the records handed to the resolver and the merge are one per audio
\* segment of the splitter, with the indices 0, 1, ..., N-1 in this order,
\* whatever text the backend returned.
C23_AsStated ==
    HandedOver =>
        /\ Len(transcription_segments) = Len(segments_info)
        /\ \A k \in DOMAIN transcription_segments :
              transcription_segments[k].segment_index = k - 1

\* the handles a successful upload returned that have had no delete_file
\* attempt among the first k entries of the log
Undeleted(k) ==
    {log[i].n : i \in {i \in 1..k :
        /\ log[i].op = "upload"
        /\ log[i].res = "ok"
        /\ \A j \in (i + 1)..k :
              ~(log[j].op = "delete" /\ log[j].n = log[i].n)}}

\* C26, as stated: at every moment at most one uploaded handle exists that
\* has not had its delete_file attempt, and an upload is issued only when
\* every handle uploaded before has had its delete_file attempt.
C26_AsStated ==
    /\ Cardinality(Undeleted(Len(log))) <= 1
    /\ \A i \in 1..Len(log) :
          log[i].op = "upload" => Undeleted(i - 1) = {}

\* the positions of the upload calls and of the retry sleeps in the log
UploadCalls == {i \in 1..Len(log) : log[i].op = "upload"}
RetrySleeps ==
    {i \in 1..Len(log) :
        log[i].op = "sleep" /\ log[i].res \in {"upload_retry", "segment_retry"}}

EveryUploadFailed ==
    /\ UploadCalls # {}
    /\ \A i \in UploadCalls : log[i].res # "ok"

\* C28, as stated: a segment call all of whose uploads fail makes exactly
\* max_retries + 1 upload attempts, sleeps 2^k seconds before re-attempt
\* k + 1 and then raises; the outer handler never retries a failure the
\* upload handler has retried.
C28_AsStated ==
    (SegmentCallEnded /\ EveryUploadFailed)
    => /\ seg_out.kind = "raise"
       /\ Cardinality(UploadCalls) = max_retries + 1
       /\ Cardinality(RetrySleeps) = max_retries
       /\ \A i \in RetrySleeps :
             /\ log[i].res = "upload_retry"
             /\ log[i].n = 2 ^ Cardinality({j \in RetrySleeps : j < i})

(***************************************************************************)
(* Properties of the speaker registry and of _merge_segments (checked      *)
(* under Spec and ServiceSpec)                                             *)
(***************************************************************************)
\* every segment is transcribed and line 531 has called
\* map_speakers_across_segments
ResolutionRan ==
    /\ pc \in {"optimize", "finally", "done"}
    /\ mode = "multi"
    /\ seg_out.kind = "return"
    /\ seg_i = Len(segments_info) - 1
    /\ options.maintain_speaker_consistency
    /\ speaker_analyzer # NoAnalyzer
    /\ transcription_segments # <<>>

\* the (segment index, local label) pairs of the raw segment texts
LabelPairs ==
    UNION {{<<transcription_segments[k].segment_index, label>> :
              label \in extract_speakers(transcription_segments[k].text)} :
           k \in DOMAIN transcription_segments}

\* the text of the segment with a segment index
TextOf(index) ==
    LET k == CHOOSE n \in DOMAIN transcription_segments :
                 transcription_segments[n].segment_index = index
    IN  transcription_segments[k].text

SharedTraits(p, q) ==
    Cardinality(TraitsShown(TextOf(p[1]), p[2]) \cap TraitsShown(TextOf(q[1]), q[2]))

\* C12: after map_speakers_across_segments has run on the segments of a
\* file, every labelled pair has a global identifier; two labels from
\* different segments whose texts show two or more shared characteristics
\* have the same global identifier, and two labels whose characteristics
\* are disjoint have distinct ones.
C12_AsStated ==
    ResolutionRan =>
        \A p, q \in LabelPairs :
            LET mapping == speaker_analyzer.global_speaker_map
            IN  p # q =>
                  /\ p \in DOMAIN mapping
                  /\ q \in DOMAIN mapping
                  /\ (p[1] # q[1] /\ SharedTraits(p, q) >= 2)
                        => mapping[p] = mapping[q]
                  /\ SharedTraits(p, q) = 0 => mapping[p] # mapping[q]

\* the global speakers that have a profile in the registry
Profiles ==
    {speaker_analyzer.speaker_characteristics[k].speaker :
        k \in DOMAIN speaker_analyzer.speaker_characteristics}

\* C13: after speaker resolution, every (segment index, local label) pair
\* of the raw segment texts has a mapping entry (a dict holds one per key),
\* and the global identifier it names has a profile in the registry.
C13_AsStated ==
    ResolutionRan =>
        \A p \in LabelPairs :
            /\ p \in DOMAIN speaker_analyzer.global_speaker_map
            /\ speaker_analyzer.global_speaker_map[p] \in Profiles

NoSpeakers(segs) == \A k \in DOMAIN segs : segs[k].speakers = <<>>

\* the segment texts in index order, each after its own time marker, and
\* nothing else
InIndexOrder(parts, segs) ==
    /\ Len(parts) = 2 * Len(segs)
    /\ \A j, k \in DOMAIN segs :
          j < k => segs[j].segment_index < segs[k].segment_index
    /\ \A k \in DOMAIN segs :
          /\ parts[2 * k - 1].kind = "marker"
          /\ parts[2 * k - 1].from = format_duration(segs[k].start_time)
          /\ parts[2 * k - 1].to = format_duration(segs[k].end_time)
          /\ parts[2 * k].kind = "text"
          /\ parts[2 * k].text = segs[k].text

\* C15: when the last segment of a file in several segments is transcribed
\* and no segment has a detected speaker, the merged transcript is the
\* segment texts in index order, each preceded by its own time marker, with
\* no summary header and no text altered.
C15_MergeUnlabelled ==
    [][(/\ pc = "segment"
        /\ pc' \in {"optimize", "finally"}
        /\ mode = "multi"
        /\ result'.error = NoError
        /\ NoSpeakers(transcription_segments'))
       => InIndexOrder(transcribed_text', transcription_segments')]_vars

\* three segments merged after a resolution that had no speaker to resolve
C15_Witness ==
    /\ pc = "done"
    /\ ResolutionRan
    /\ result.error = NoError
    /\ ~options.enable_text_optimization
    /\ Len(transcription_segments) = 3
    /\ NoSpeakers(transcription_segments)
    /\ Len(result.content) = 6
    /\ InIndexOrder(result.content, transcription_segments)

\* every label of the text replaced at once by what the mapping gives it
apply_simultaneous(segment, mapping) ==
    [segment.text EXCEPT !.lines =
        [k \in DOMAIN segment.text.lines |->
            LET key == <<segment.segment_index, segment.text.lines[k].speaker>>
            IN  IF key \in DOMAIN mapping
                   /\ \E j \in DOMAIN segment.speakers :
                         segment.speakers[j] = segment.text.lines[k].speaker
                THEN [segment.text.lines[k] EXCEPT !.speaker = mapping[key]]
                ELSE segment.text.lines[k]]]

\* C14: the text apply_speaker_mapping returns is the text in which every
\* label is replaced at once by the global speaker its own mapping entry
\* names, for every mapping and every order of segment.speakers.
C14_AsStated ==
    pc = "applied" =>
        transcribed_text[1].text
            = apply_simultaneous(transcription_segments[1], speaker_mapping)

\* the profiles of the registry: the global speakers in the order of their
\* creation, each with its characteristics
Registry(analyzer) == analyzer.speaker_characteristics

UsesRegistry ==
    /\ mode = "multi"
    /\ pc \in {"segment", "optimize", "finally", "done"}
    /\ speaker_analyzer # NoAnalyzer

\* C19: the speaker registry a process call uses was created in that call,
\* for any sequence of calls on the same service instance and any options.
C19_AsStated == UsesRegistry => speaker_analyzer.owner = run

(***************************************************************************)
(* Properties of the generate loops (checked under RetrySpec)              *)
(***************************************************************************)
ProviderCalls == {i \in DOMAIN log : log[i].op = "generate"}
ProviderSleeps == {i \in DOMAIN log : log[i].op = "sleep"}

\* the number of backend calls made before entry i of the log
AttemptNo(i) == Cardinality({j \in ProviderCalls : j < i})

\* the errors of ProviderErrors that the keyword list of each loop matches
Retryable(name) ==
    IF name = "gemini" THEN {"503", "429", "500"}
    ELSE IF name = "qwen" THEN {"503", "throttling"}
    ELSE {"503", "429"}

\* C20: in each of the three generate loops, a retryable error at attempt k
\* below max_retries is followed by a sleep of 2^k seconds and then by a new
\* attempt; a success, a non-retryable error, or a retryable error after
\* max_retries re-attempts ends the call at once (the error is raised), with
\* no further sleep and no further backend call; there are at most
\* max_retries sleeps and max_retries + 1 backend calls.
C20_RetryLoops ==
    /\ \A i \in ProviderCalls :
          LET k == AttemptNo(i)
              r == log[i].res
          IN  IF r \in Retryable(provider.name) /\ k < provider.max_retries
              THEN /\ i < Len(log)
                   /\ log[i + 1] = Sleep(provider.name, 2 ^ k)
                   /\ IF i + 1 = Len(log)
                      THEN /\ provider_call.pc = "try"
                           /\ provider_call.retry_count = k + 1
                      ELSE log[i + 2].op = "generate"
              ELSE /\ i = Len(log)
                   /\ provider_call.pc = IF r = "ok" THEN "returned" ELSE "raised"
                   /\ r # "ok" => provider_call.error = <<"model call failed", r>>
    /\ \A i \in ProviderSleeps : i > 1 /\ log[i - 1].op = "generate"
    /\ Cardinality(ProviderSleeps) <= provider.max_retries
    /\ Cardinality(ProviderCalls) <= provider.max_retries + 1
    /\ provider_call.pc # "try" => log # <<>> /\ log[Len(log)].op = "generate"

\* the Qwen loop with max_retries = 3 gives up after sleeps of 1, 2 and 4
\* seconds and four backend calls
C20_Witness ==
    /\ provider = [name |-> "qwen", max_retries |-> 3]
    /\ provider_call.pc = "raised"
    /\ Len(log) = 7
    /\ log[1].res = "throttling"
    /\ log[2] = Sleep("qwen", 1)
    /\ log[4] = Sleep("qwen", 2)
    /\ log[6] = Sleep("qwen", 4)
    /\ log[7].res = "503"

(***************************************************************************)
(* Properties of split_audio (checked under SplitSpec)                     *)
(***************************************************************************)
\* milliseconds denoted by a value stored in a segment tuple
Ms(t) == t.s * 1000 + t.frac

ReturnedFallback == returned_at \in {157, 218}

\* the segment list the properties speak about has the five properties of C9
Contiguous(segs, total) ==
    /\ Len(segs) >= 1
    /\ Ms(segs[1].start) = 0
    /\ \A i \in 1..Len(segs) : Ms(segs[i].start) <= Ms(segs[i].end)
    /\ \A i \in 1..(Len(segs) - 1) :
          /\ segs[i].end = segs[i + 1].start
          /\ Ms(segs[i].start) <= Ms(segs[i + 1].start)
    /\ Ms(segs[Len(segs)].end) = total

\* C8 as stated: for any input whose duration is at most the maximum,
\* split_audio returns exactly one segment, and it spans [0, duration].
C8_AsStated ==
    (split_pc = "returned" /\ total_duration <= max_duration_ms) =>
        /\ Len(segments_info) = 1
        /\ Ms(segments_info[1].start) = 0
        /\ Ms(segments_info[1].end) = total_duration

\* C8 amended: for a duration of at most the maximum split_audio returns
\* exactly one segment, the input file itself, starting at 0; it ends at the
\* duration when pydub is available and the file loads (line 169), and at 0
\* in the fallback of lines 157 and 218.
C8_SingleSegment ==
    (split_pc = "returned" /\ total_duration <= max_duration_ms) =>
        /\ Len(segments_info) = 1
        /\ segments_info[1].path = InputPath
        /\ Ms(segments_info[1].start) = 0
        /\ returned_at \in {157, 169, 218}
        /\ (returned_at = 157) = (~pydub_available)
        /\ returned_at = 169 => Ms(segments_info[1].end) = total_duration
        /\ ReturnedFallback => Ms(segments_info[1].end) = 0

C8_Witness ==
    /\ split_pc = "returned"
    /\ returned_at = 169
    /\ total_duration = max_duration_ms
    /\ Ms(segments_info[1].end) = total_duration

Within30s(p) ==
    {i \in 1..Len(silence_chunks) :
        /\ silence_chunks[i][1] - p <= 30000
        /\ p - silence_chunks[i][1] <= 30000}

\* the 45-minute scenario of C10
Scenario45 ==
    /\ total_duration = 2700000
    /\ max_duration_minutes = 20
    /\ Len(silence_chunks) = 2
    /\ silence_chunks[1][1] = 1190000
    /\ silence_chunks[2][1] = 2380000

Scenario45Result ==
    /\ Len(segments_info) = 3
    /\ Ms(segments_info[1].start) = 0
    /\ Ms(segments_info[1].end) = 1190000
    /\ Ms(segments_info[2].start) = 1190000
    /\ Ms(segments_info[2].end) = 2380000
    /\ Ms(segments_info[3].start) = 2380000
    /\ Ms(segments_info[3].end) = 2700000

\* C10 as stated: when a silence starts within 30 s of current start +
\* maximum, the cut is at that silence start; and the 45-minute scenario
\* yields the boundaries 0, 19:50, 39:40, 45:00.
C10_AsStated ==
    /\ \A i \in 1..Len(segments) :
          LET near == Within30s(Ms(segments[i].start) + max_duration_minutes * 60000)
          IN  near # {} =>
                 \E k \in near : Ms(segments[i].end) = silence_chunks[k][1]
    /\ (Scenario45 /\ returned_at = 214) => Scenario45Result

\* C10 amended: when a silence starts within 30 s of the ideal cut point
\* min(current start + maximum, total duration), the cut is at the start of
\* the first such silence of the list, unless that start lies within the
\* last 5 s of the file, in which case the cut is the end of the file; and
\* the 45-minute scenario yields the boundaries 0, 19:50, 39:40, 45:00.
C10_CutAtSilence ==
    /\ \A i \in 1..Len(segments) :
          LET from == Ms(segments[i].start)
              raw == from + max_duration_minutes * 60000
              ideal == IF raw <= total_duration THEN raw ELSE total_duration
              near == Within30s(ideal)
          IN  near # {} =>
                 LET k == CHOOSE n \in near : \A m \in near : n <= m
                     at == silence_chunks[k][1]
                 IN  Ms(segments[i].end) =
                        (IF at >= total_duration - 5000 THEN total_duration
                         ELSE at)
    /\ (Scenario45 /\ returned_at = 214) => Scenario45Result

C10_Witness ==
    /\ Scenario45
    /\ returned_at = 214
    /\ Scenario45Result

\* C11, as stated: when pydub (and with it silence detection) is not
\* available, split_audio on a file longer than the maximum raises nothing
\* and returns more than one segment, each cut lying at the segment's start
\* plus the maximum duration.
C11_AsStated ==
    (split_pc = "returned" /\ ~pydub_available
        /\ total_duration > max_duration_ms)
    => /\ Len(segments_info) > 1
       /\ \A i \in 1..(Len(segments_info) - 1) :
             Ms(segments_info[i].end)
                = Ms(segments_info[i].start) + max_duration_ms

\* C25, as stated: the cutting loop of split_audio terminates for every
\* file longer than the maximum and every silence list: in each iteration
\* the chosen cut point is strictly greater than the current start, and
\* every emitted segment has a positive duration.
C25_AsStated ==
    /\ (split_pc = "loop" /\ current_start < total_duration)
          => best_split_point(current_start) > current_start
    /\ \A i \in 1..Len(segments) :
          Ms(segments[i].end) > Ms(segments[i].start)

\* the cut of lines 186-192 for a segment that starts at from, before the
\* tail rule of line 194
CutBeforeTail(from) ==
    LET raw == from + max_duration_minutes * 60000
        ideal == IF raw <= total_duration THEN raw ELSE total_duration
        near == Within30s(ideal)
    IN  IF near = {} THEN ideal
        ELSE silence_chunks[CHOOSE n \in near : \A m \in near : n <= m][1]

IdealCut(from) ==
    LET raw == from + max_duration_minutes * 60000
    IN  IF raw <= total_duration THEN raw ELSE total_duration

SegmentDuration(i) == Ms(segments[i].end) - Ms(segments[i].start)

CutAtLaterSilence(i) ==
    /\ Ms(segments[i].end) = CutBeforeTail(Ms(segments[i].start))
    /\ Ms(segments[i].end) > IdealCut(Ms(segments[i].start))

\* C30, as stated: every emitted segment lasts at most the maximum plus
\* 35 s, and a segment exceeds the maximum only when it is cut at a silence
\* after the ideal point or absorbs a tail shorter than 5 s.
C30_AsStated ==
    \A i \in 1..Len(segments) :
       /\ SegmentDuration(i) <= max_duration_minutes * 60000 + 35000
       /\ SegmentDuration(i) > max_duration_minutes * 60000 =>
             \/ CutAtLaterSilence(i)
             \/ /\ Ms(segments[i].end) = total_duration
                /\ total_duration - CutBeforeTail(Ms(segments[i].start)) < 5000

\* C30 amended: every emitted segment lasts at most the maximum plus 35 s,
\* and a segment exceeds the maximum only when it is cut at a silence after
\* the ideal point or absorbs a tail of at most 5 s (a tail of exactly 5 s
\* is absorbed too).
C30_DurationBound ==
    \A i \in 1..Len(segments) :
       /\ SegmentDuration(i) <= max_duration_minutes * 60000 + 35000
       /\ SegmentDuration(i) > max_duration_minutes * 60000 =>
             \/ CutAtLaterSilence(i)
             \/ /\ Ms(segments[i].end) = total_duration
                /\ total_duration - CutBeforeTail(Ms(segments[i].start)) <= 5000

C30_Witness ==
    /\ returned_at = 214
    /\ \E i \in 1..Len(segments_info) :
          /\ SegmentDuration(i) > max_duration_minutes * 60000
          /\ Ms(segments[i].end) = total_duration
          /\ total_duration - CutBeforeTail(Ms(segments[i].start)) = 5000

\* segment file n holds audio of instance o, and o has produced it but has
\* not finished transcribing it
Unfinished(o, n) ==
    /\ temp_segments.exists
    /\ temp_segments.files[n] = o
    /\ services[o].pc \in {"export", "transcribe"}
    /\ services[o].segments_info # "fallback"
    /\ n < services[o].segment_index
    /\ n >= services[o].i

\* C29, as stated: two process runs on different long files in one working
\* directory do not interfere through temp storage: no export and no
\* cleanup of one run replaces or deletes a segment file that the other run
\* has produced but not finished transcribing.
C29_AsStated ==
    [][ \A o \in Instances, n \in SegmentNames :
          Unfinished(o, n)
          => /\ temp_segments'.exists
             /\ temp_segments'.files[n] = o ]_vars

=============================================================================
